---- MODULE Spec2Model ----
(***************************************************************************)
(* A model of the browser file manager `App` (src/unnamed/part_000): the   *)
(* React state, the four recording refs, the origin-private storage root,  *)
(* the capture streams and the async handlers, one action per synchronous  *)
(* run of a handler between two awaits.                                    *)
(*                                                                         *)
(* A handler reads React state from the closure of the render it was       *)
(* called from: the values at the time of the call.  A value a handler     *)
(* uses after an await is therefore kept in the handler's own record.      *)
(* Refs (`.current`) are read live.                                        *)
(***************************************************************************)
EXTENDS Integers, Sequences, FiniteSets, TLC

\* ---- bounds of the model ----
MaxSessions == 2      \* recording sessions alive at the same time
MaxSlices == 1        \* timeslice data events held at a time (the one on stop is extra)
MaxSliceSize == 1     \* a data slice has 0..MaxSliceSize bytes
MaxFaults == 1        \* host calls that fail in one run
MaxEntries == 2       \* recordings that get as far as drawing a file name
MaxRequests == 3      \* requests (calls of a handler from the page) in one run
MaxInFlight == 2      \* handlers (recording sessions among them) in flight at a time
MaxSourceLen == 4     \* a file ingested on its own has 0..MaxSourceLen bytes
MaxChunkBound == 3    \* and is written in sub-chunks of 1..MaxChunkBound bytes

Sessions == 1..MaxSessions
SliceSizes == 0..MaxSliceSize
RecordingTypes == {"webcam", "screen"}

null == "null"

\* ---- names and entries ----
\* String.prototype.startsWith
StartsWith(s, p) == Len(s) >= Len(p) /\ SubSeq(s, 1, Len(p)) = p

\* `${type}-${crypto.randomUUID()}.${fileExtension}` with fileExtension = "webm";
\* the n-th UUID drawn is written n
fileExtension == "webm"
MediaFileNamePlain(type, n) == "rec-" \o ToString(n) \o "." \o fileExtension
MediaFileName(type, n) == type \o "-" \o ToString(n) \o "." \o fileExtension

\* entries left in the storage root by earlier page loads
PreNames == {"text-0.txt", "webcam-0.webm", "unknown-0.bin"}
\* names with no entry in the root
MissingNames == {"unknown-xyz"}
PreBytes(name) == IF StartsWith(name, "text-") THEN <<72, 200>> ELSE <<9>>
FileEntry(bytes) == [kind |-> "file", bytes |-> bytes]
\* a directory left in the root, and the root as the page finds it
PreDirs == {"text-dir"}
DirEntry == [kind |-> "directory", bytes |-> <<>>]
PreRoot == [n \in PreNames \cup PreDirs |->
              IF n \in PreDirs THEN DirEntry ELSE FileEntry(PreBytes(n))]

\* the bytes of the n-th blob the recorder of session s delivers
BlobBytes(s, n, size) == [i \in 1..size |-> 10 * s + n]

\* URL.createObjectURL(file)
ObjectURL(name) == "blob:" \o name

VARIABLES
  \* React state
  isRecording, currentRecordingType,
  activeWebcamFileHandle, activeScreenFileHandle,
  webcamPlaybackUrl, screenPlaybackUrl,
  activeTextFileHandle, fileContent,
  fileList, isInspecting,
  isLoading, error, success,
  \* refs
  mediaRecorderRef, mediaStreamRef, writableStreamRef, currentFileHandleRef,
  \* host: storage root, write targets, capture streams with live tracks, UUIDs drawn
  root, writables, liveTracks, uuidCount,
  \* handlers in flight
  rec, loadCall, showCall, playCall,
  \* the page: isSupported, and checkSupportAndLoad, handleListFiles,
  \* handleDeleteFile and handleFileSelect in flight
  isSupported, boot, listCall, deleteCall, ingestCall,
  \* host: the object URLs created for each category and not revoked
  objectUrls,
  \* history: the category of the handler that created each entry made since the
  \* mount
  createdBy,
  \* downloads: the handler in flight, the last save flow triggered, the object URLs
  \* created for a transfer and not revoked
  downloadCall, saved, transferUrls,
  \* history: the last step taken, the slices each recorder delivered, the number
  \* of requests made
  \* and of host calls that failed
  ev, arrived, requests, faults

recState == <<isRecording, currentRecordingType>>
refs == <<mediaRecorderRef, mediaStreamRef, writableStreamRef, currentFileHandleRef>>
actives == <<activeTextFileHandle, activeWebcamFileHandle, activeScreenFileHandle>>
companions == <<fileContent, webcamPlaybackUrl, screenPlaybackUrl>>
listing == <<fileList, isInspecting>>
feedback == <<isLoading, error, success>>
host == <<root, writables, liveTracks, uuidCount>>
calls == <<loadCall, showCall, playCall>>
store == <<isSupported, boot, listCall, deleteCall, ingestCall>>
transfer == <<downloadCall, saved, transferUrls>>
vars == <<recState, refs, actives, companions, listing, feedback, host, rec, calls,
          store, objectUrls, createdBy, transfer, ev, arrived, requests, faults>>

Ev(op, s) == [op |-> op, s |-> s]

NoCall == [pc |-> "idle", arg |-> null, handle |-> null]
NoRec == [pc |-> "unused", type |-> null, fileName |-> null, closing |-> null,
          closeRejected |-> FALSE, pre |-> <<>>]

\* the record of a session that has ended: its number is used again, unless the
\* tracks of its stream are still live
Retired(s, live) == IF s \in live THEN [NoRec EXCEPT !.pc = "done"] ELSE NoRec

\* lines 64-67: what the host must have
Capabilities == {"storage.getDirectory", "mediaDevices", "MediaRecorder"}

\* handleFileSelect with no call in flight; of a call: the name drawn, the read
\* chunks of the source not read yet, the chunk being written and the offset in it,
\* the sub-chunk bound, the swap file of the write target, the write() calls made
NoIngest == [pc |-> "idle", name |-> null, source |-> <<>>, chunks |-> <<>>,
             value |-> <<>>, i |-> 0, bound |-> 0, buf |-> <<>>, writes |-> <<>>,
             quiet |-> FALSE, request |-> 0]
\* handleDeleteFile with no call in flight; of a call: the name and the three
\* active references of the render the handler was called from
NoDelete == [pc |-> "idle", arg |-> null, found |-> <<>>, quiet |-> FALSE, request |-> 0]

\* the history of the entries made, with one more
Created(name, category) ==
  [n \in DOMAIN createdBy \cup {name} |-> IF n = name THEN category ELSE createdBy[n]]

\* the state of the component when it is mounted (lines 21-58), the storage root
\* holding the entries of earlier page loads
Mounted ==
  /\ isRecording = FALSE /\ currentRecordingType = null
  /\ activeWebcamFileHandle = null /\ activeScreenFileHandle = null
  /\ webcamPlaybackUrl = null /\ screenPlaybackUrl = null
  /\ activeTextFileHandle = null /\ fileContent = <<>>
  /\ isInspecting = FALSE
  /\ isLoading = FALSE /\ error = ""
  /\ mediaRecorderRef = 0 /\ mediaStreamRef = 0    \* a session number, 0 for null
  /\ writableStreamRef = null /\ currentFileHandleRef = null
  /\ root = PreRoot
  /\ writables = [n \in {} |-> 0]
  /\ liveTracks = {}
  /\ uuidCount = 0
  /\ rec = [s \in Sessions |-> NoRec]
  /\ loadCall = NoCall /\ showCall = NoCall /\ playCall = NoCall
  /\ listCall = NoCall /\ deleteCall = NoDelete /\ ingestCall = NoIngest
  /\ objectUrls = [t \in RecordingTypes |-> 0]
  /\ createdBy = [n \in {} |-> null]
  /\ downloadCall = NoCall /\ saved = null /\ transferUrls = 0
  /\ arrived = [s \in Sessions |-> <<>>]
  /\ requests = 0
  /\ faults = 0

\* the page as it is mounted, before checkSupportAndLoad has run, on a host with
\* any of the three capabilities
InitStartup ==
  /\ Mounted
  /\ isSupported = FALSE
  /\ boot \in {[pc |-> "probe", caps |-> c] : c \in SUBSET Capabilities}
  /\ fileList = {} /\ success = ""
  /\ ev = Ev("init", 0)

\* the page once checkSupportAndLoad has run to its end on a host with the three
\* capabilities: supported, the listing of lines 79 and 447-474 taken
Init ==
  /\ Mounted
  /\ isSupported = TRUE
  /\ boot = [pc |-> "done", caps |-> Capabilities]
  /\ fileList = PreNames /\ success = "Found file(s)."
  /\ ev = Ev("init", 0)

\* a request: a call of a handler from the page, which shows its controls only
\* when isSupported (lines 596-598)
Request == isSupported /\ requests < MaxRequests /\ requests' = requests + 1

\* the handlers in flight: recording sessions from the request to the end of the
\* stop handler, and calls suspended at an await
InFlight ==
  Cardinality({s \in Sessions : rec[s].pc \notin {"unused", "done"}})
  + Cardinality({c \in {"load", "show", "play", "list", "delete", "ingest", "boot",
                        "download"} :
       CASE c = "load" -> loadCall.pc # "idle"
         [] c = "show" -> showCall.pc # "idle"
         [] c = "play" -> playCall.pc # "idle"
         [] c = "list" -> listCall.pc # "idle"
         [] c = "delete" -> deleteCall.pc # "idle"
         [] c = "ingest" -> ingestCall.pc # "idle"
         [] c = "boot" -> boot.pc = "listing"
         [] c = "download" -> downloadCall.pc # "idle"})

\* a request that leaves a handler suspended at an await
Begin == Request /\ InFlight < MaxInFlight

\* a host call that fails
Fault == faults < MaxFaults /\ faults' = faults + 1

RECURSIVE SumLen(_, _)
SumLen(f, S) == IF S = {} THEN 0
                ELSE LET x == CHOOSE x \in S : TRUE IN Len(f[x]) + SumLen(f, S \ {x})

\* ---- startRecording ----

\* the session a start request that passes the check runs as
NextSession == CHOOSE s \in Sessions : rec[s].pc = "unused" /\
                 \A t \in Sessions : t < s => rec[t].pc # "unused"
\* what a start request finds: the active references and their companions, whether
\* no load, show or play is in flight, and the number of the request
Snapshot == [found |-> <<actives, companions>>,
             quiet |-> (loadCall.pc = "idle" /\ showCall.pc = "idle"
                          /\ playCall.pc = "idle" /\ listCall.pc = "idle"
                          /\ deleteCall.pc = "idle" /\ ingestCall.pc = "idle"
                          /\ downloadCall.pc = "idle"),
             request |-> requests + 1]

\* a rejection that released the stream of the recording in progress, as the
\* cleanup of lines 306-307 does; C2 rules it out
StartRecordingRejectedReleases(type) ==
  /\ isRecording
  /\ error' = "Another recording is already in progress."
  /\ success' = ""
  /\ liveTracks' = liveTracks \ {mediaStreamRef}
  /\ mediaStreamRef' = 0
  /\ ev' = Ev("startRejected", 0)
  /\ UNCHANGED <<recState, mediaRecorderRef, writableStreamRef, currentFileHandleRef,
                 actives, companions, listing, isLoading, root, writables, uuidCount,
                 rec, calls, arrived>>
  /\ UNCHANGED faults
  /\ Request
  /\ UNCHANGED <<store, objectUrls, createdBy, transfer>>

\* lines 253-257: the request is rejected while isRecording
StartRecordingRejected(type) ==
  /\ isRecording
  /\ error' = "Another recording is already in progress."
  /\ success' = ""
  /\ ev' = Ev("startRejected", 0)
  /\ UNCHANGED <<recState, refs, actives, companions, listing, isLoading, host, rec,
                 calls, arrived>>
  /\ UNCHANGED faults
  /\ Request
  /\ UNCHANGED <<store, objectUrls, createdBy, transfer>>

\* lines 253-267/273: up to the await of getUserMedia / getDisplayMedia
StartRecordingAccepted(type) ==
  /\ ~isRecording
  /\ \E s \in Sessions : rec[s].pc = "unused"
  /\ uuidCount + Cardinality({s \in Sessions : rec[s].pc = "getUserMedia"}) < MaxEntries
  /\ error' = "" /\ success' = ""
  /\ fileContent' = <<>>
  /\ webcamPlaybackUrl' = null /\ screenPlaybackUrl' = null
  /\ rec' = [rec EXCEPT ![NextSession] =
               [@ EXCEPT !.pc = "getUserMedia", !.type = type, !.pre = Snapshot]]
  /\ ev' = Ev("startAccepted", NextSession)
  /\ UNCHANGED <<recState, refs, actives, listing, isLoading, host, calls, arrived>>
  /\ UNCHANGED faults
  /\ Begin
  /\ UNCHANGED <<store, objectUrls, createdBy, transfer>>

StartRecording(type) == StartRecordingRejected(type) \/ StartRecordingAccepted(type)

\* lines 278, 286-293: the stream arrives; the name is drawn; getDirectory and
\* getFileHandle are awaited
GetUserMediaOk(s) ==
  /\ rec[s].pc = "getUserMedia"
  /\ liveTracks' = liveTracks \cup {s}
  /\ mediaStreamRef' = s
  /\ uuidCount' = uuidCount + 1
  /\ rec' = [rec EXCEPT ![s] = [@ EXCEPT !.pc = "getFileHandle", !.pre = <<>>,
                                  !.fileName = MediaFileName(rec[s].type, uuidCount + 1)]]
  /\ ev' = Ev("streamAcquired", s)
  /\ UNCHANGED <<recState, mediaRecorderRef, writableStreamRef, currentFileHandleRef,
                 actives, companions, listing, feedback, root, writables, calls, arrived>>
  /\ UNCHANGED faults
  /\ UNCHANGED requests
  /\ UNCHANGED <<store, objectUrls, createdBy, transfer>>

\* lines 279-283
GetUserMediaFail(s) ==
  /\ rec[s].pc = "getUserMedia"
  /\ error' = "Could not start recording"
  /\ rec' = [rec EXCEPT ![s] = NoRec]
  /\ ev' = Ev("acquireFailed", s)
  /\ UNCHANGED <<recState, refs, actives, companions, listing, isLoading, success, host,
                 calls, arrived>>
  /\ Fault
  /\ UNCHANGED requests
  /\ UNCHANGED <<store, objectUrls, createdBy, transfer>>

\* lines 293-297 rejected, then the catch of lines 302-309: the tracks of the stream
\* mediaStreamRef holds are stopped and the ref is cleared
StartCleanup(s, msg) ==
  /\ error' = msg
  /\ liveTracks' = liveTracks \ {mediaStreamRef}
  /\ mediaStreamRef' = 0
  /\ rec' = [rec EXCEPT ![s] = Retired(s, liveTracks')]
  /\ UNCHANGED <<recState, mediaRecorderRef, writableStreamRef, currentFileHandleRef,
                 actives, companions, listing, isLoading, success, writables, uuidCount,
                 calls, arrived>>

\* lines 293-297: getFileHandle(newFileName, {create: true}) makes the entry
GetFileHandleOk(s) ==
  /\ rec[s].pc = "getFileHandle"
  /\ root' = IF rec[s].fileName \in DOMAIN root THEN root
             ELSE [n \in DOMAIN root \cup {rec[s].fileName} |->
                     IF n = rec[s].fileName THEN FileEntry(<<>>) ELSE root[n]]
  /\ rec' = [rec EXCEPT ![s] = [@ EXCEPT !.pc = "createWritable"]]
  /\ createdBy' = IF rec[s].fileName \in DOMAIN root THEN createdBy
                  ELSE Created(rec[s].fileName, rec[s].type)
  /\ ev' = Ev("entryCreated", s)
  /\ UNCHANGED <<recState, refs, actives, companions, listing, feedback, writables,
                 liveTracks, uuidCount, calls, arrived>>
  /\ UNCHANGED faults
  /\ UNCHANGED requests
  /\ UNCHANGED <<store, objectUrls, transfer>>

GetFileHandleFail(s) ==
  /\ rec[s].pc = "getFileHandle"
  /\ StartCleanup(s, "Could not create recording file")
  /\ ev' = Ev("entryFailed", s)
  /\ UNCHANGED root
  /\ Fault
  /\ UNCHANGED requests
  /\ UNCHANGED <<store, objectUrls, createdBy, transfer>>

\* a write target as createWritable() returns it: an empty swap file
NewWritable == [state |-> "open", buf |-> <<>>, pending |-> <<>>]
WithWritable(name, w) ==
  [n \in DOMAIN writables \cup {name} |-> IF n = name THEN w ELSE writables[n]]

\* lines 298-315 and 373: the write target opens; refs and state are set; the
\* recorder is made and started
CreateWritableOk(s) ==
  /\ rec[s].pc = "createWritable"
  /\ rec[s].fileName \in DOMAIN root
  /\ writables' = WithWritable(rec[s].fileName, NewWritable)
  /\ writableStreamRef' = rec[s].fileName
  /\ currentFileHandleRef' = rec[s].fileName
  /\ isRecording' = TRUE
  /\ currentRecordingType' = rec[s].type
  /\ mediaRecorderRef' = s
  /\ rec' = [rec EXCEPT ![s] = [@ EXCEPT !.pc = "recording"]]
  /\ ev' = Ev("recorderStarted", s)
  /\ UNCHANGED <<mediaStreamRef, actives, companions, listing, feedback, root, liveTracks,
                 uuidCount, calls, arrived>>
  /\ UNCHANGED faults
  /\ UNCHANGED requests
  /\ UNCHANGED <<store, objectUrls, createdBy, transfer>>

\* lines 298-314: as above, but `new MediaRecorder(stream, {mimeType})` throws
\* (NotSupportedError); the promise of startRecording rejects, uncaught
RecorderThrows(s) ==
  /\ rec[s].pc = "createWritable"
  /\ rec[s].fileName \in DOMAIN root
  /\ writables' = WithWritable(rec[s].fileName, NewWritable)
  /\ writableStreamRef' = rec[s].fileName
  /\ currentFileHandleRef' = rec[s].fileName
  /\ isRecording' = TRUE
  /\ currentRecordingType' = rec[s].type
  /\ rec' = [rec EXCEPT ![s] = Retired(s, liveTracks)]
  /\ ev' = Ev("recorderThrew", s)
  /\ UNCHANGED <<mediaRecorderRef, mediaStreamRef, actives, companions, listing, feedback,
                 root, liveTracks, uuidCount, calls, arrived>>
  /\ Fault
  /\ UNCHANGED requests
  /\ UNCHANGED <<store, objectUrls, createdBy, transfer>>

\* line 298 rejected, by a fault of the host or because the entry was removed after
\* its handle was obtained; then lines 302-309
CreateWritableFail(s) ==
  /\ rec[s].pc = "createWritable"
  /\ StartCleanup(s, "Could not create recording file")
  /\ ev' = Ev("writableFailed", s)
  /\ UNCHANGED root
  /\ IF rec[s].fileName \in DOMAIN root THEN Fault ELSE UNCHANGED faults
  /\ UNCHANGED requests
  /\ UNCHANGED <<store, objectUrls, createdBy, transfer>>

\* ---- recorder.ondataavailable ----

\* a write() call on a target: queued behind the writes before it; a call made
\* after close() was called, or on an errored target, is rejected
QueueWrite(w, bytes) ==
  [w EXCEPT !.pending = Append(@, [bytes |-> bytes, rejected |-> w.state # "open"])]

\* lines 317-323: a data event of the recorder of session s, every timeslice while
\* it records and once more when it is stopped
DataAvailable(s, size) ==
  /\ \/ rec[s].pc = "recording" /\ SumLen(arrived, Sessions) < MaxSlices
     \/ rec[s].pc = "flushing"
  /\ arrived' = [arrived EXCEPT ![s] = Append(@, size)]
  /\ writables' =
       IF size > 0 /\ writableStreamRef # null
       THEN [writables EXCEPT ![writableStreamRef] =
               QueueWrite(@, BlobBytes(s, Len(arrived[s]) + 1, size))]
       ELSE writables
  /\ rec' = [rec EXCEPT ![s] =
               [@ EXCEPT !.pc = IF rec[s].pc = "flushing" THEN "stopEvent" ELSE @]]
  /\ ev' = Ev("dataavailable", s)
  /\ UNCHANGED <<recState, refs, actives, companions, listing, feedback, root, liveTracks,
                 uuidCount, calls>>
  /\ UNCHANGED faults
  /\ UNCHANGED requests
  /\ UNCHANGED <<store, objectUrls, createdBy, transfer>>

\* line 323 fulfilled: the oldest queued write of a target reaches the swap file
WriteOk(name) ==
  /\ name \in DOMAIN writables
  /\ writables[name].pending # <<>>
  /\ ~Head(writables[name].pending).rejected
  /\ writables[name].state \in {"open", "closing"}
  /\ writables' = [writables EXCEPT ![name] =
                     [@ EXCEPT !.buf = @ \o Head(writables[name].pending).bytes,
                               !.pending = Tail(@)]]
  /\ ev' = Ev("writeOk", 0)
  /\ UNCHANGED <<recState, refs, actives, companions, listing, feedback, root, liveTracks,
                 uuidCount, rec, calls, arrived>>
  /\ UNCHANGED faults
  /\ UNCHANGED requests
  /\ UNCHANGED <<store, objectUrls, createdBy, transfer>>

\* a rejected write that also ended the recording; C7 rules it out
WriteFailEndsSession(name) ==
  /\ name \in DOMAIN writables
  /\ writables[name].pending # <<>>
  /\ writables' = [writables EXCEPT ![name] =
                     [@ EXCEPT !.state = IF Head(writables[name].pending).rejected
                                         THEN @ ELSE "errored",
                               !.pending = Tail(@)]]
  /\ error' = "Recording error"
  /\ isRecording' = FALSE
  /\ IF Head(writables[name].pending).rejected \/ writables[name].state = "errored"
     THEN UNCHANGED faults ELSE Fault
  /\ ev' = Ev("writeFailed", 0)
  /\ UNCHANGED <<currentRecordingType, refs, actives, companions, listing, isLoading,
                 success, root, liveTracks, uuidCount, rec, calls, arrived>>
  /\ UNCHANGED requests
  /\ UNCHANGED <<store, objectUrls, createdBy, transfer>>

\* lines 324-327: the oldest queued write is rejected; only the error is set
WriteFail(name) ==
  /\ name \in DOMAIN writables
  /\ writables[name].pending # <<>>
  /\ writables' = [writables EXCEPT ![name] =
                     [@ EXCEPT !.state = IF Head(writables[name].pending).rejected
                                         THEN @ ELSE "errored",
                               !.pending = Tail(@)]]
  /\ error' = "Recording error"
  /\ IF Head(writables[name].pending).rejected \/ writables[name].state = "errored"
     THEN UNCHANGED faults ELSE Fault
  /\ ev' = Ev("writeFailed", 0)
  /\ UNCHANGED <<recState, refs, actives, companions, listing, isLoading, success, root,
                 liveTracks, uuidCount, rec, calls, arrived>>
  /\ UNCHANGED requests
  /\ UNCHANGED <<store, objectUrls, createdBy, transfer>>

\* ---- stopRecording ----

\* an idle stop that reported an error; C8 rules it out
StopRecordingComplains ==
  /\ mediaRecorderRef = 0 \/ ~isRecording
  /\ error' = "No active recording"
  /\ ev' = Ev("stopNoop", 0)
  /\ UNCHANGED <<recState, refs, actives, companions, listing, isLoading, success, host,
                 rec, calls, arrived>>
  /\ UNCHANGED faults
  /\ Request
  /\ UNCHANGED <<store, objectUrls, createdBy, transfer>>

\* lines 381-384
StopRecordingNoop ==
  /\ mediaRecorderRef = 0 \/ ~isRecording
  /\ ev' = Ev("stopNoop", 0)
  /\ UNCHANGED <<recState, refs, actives, companions, listing, feedback, host, rec, calls,
                 arrived>>
  /\ UNCHANGED faults
  /\ Request
  /\ UNCHANGED <<store, objectUrls, createdBy, transfer>>

\* line 386: MediaRecorder.stop() queues a last data event and the stop event; on an
\* inactive recorder it does nothing
StopRecordingStops ==
  /\ mediaRecorderRef # 0 /\ isRecording
  /\ rec' = [rec EXCEPT ![mediaRecorderRef] =
               [@ EXCEPT !.pc = IF @ = "recording" THEN "flushing" ELSE @]]
  /\ ev' = Ev(IF rec[mediaRecorderRef].pc = "recording" THEN "stopAccepted"
              ELSE "stopInactive", mediaRecorderRef)
  /\ UNCHANGED <<recState, refs, actives, companions, listing, feedback, host, calls,
                 arrived>>
  /\ UNCHANGED faults
  /\ Request
  /\ UNCHANGED <<store, objectUrls, createdBy, transfer>>

StopRecording == StopRecordingNoop \/ StopRecordingStops

\* lines 306 and 366: track.stop() on every track of a stream a recorder records
\* from ends the recorder as stop() does: a last data event, then the stop event
TracksEnded(s) ==
  /\ rec[s].pc = "recording"
  /\ s \notin liveTracks
  /\ rec' = [rec EXCEPT ![s] = [@ EXCEPT !.pc = "flushing"]]
  /\ ev' = Ev("tracksEnded", s)
  /\ UNCHANGED <<recState, refs, actives, companions, listing, feedback, host, calls,
                 store, objectUrls, createdBy, transfer, arrived, requests, faults>>

\* ---- handleListFiles ----

ListedEntries == DOMAIN root

\* lines 455-459: the names of the entries of kind "file" (the order in which the
\* host enumerates them is its own: the snapshot is kept as the set of names)
ListedFiles == {n \in DOMAIN root : root[n].kind = "file"}

\* lines 462-466
ListMessage(files) == IF Cardinality(files) > 0 THEN "Found file(s)."
                      ELSE "Filesystem is empty."

\* ---- recorder.onstop ----

\* lines 366-370
OnStopCleanup ==
  /\ liveTracks' = liveTracks \ {mediaStreamRef}
  /\ mediaStreamRef' = 0
  /\ mediaRecorderRef' = 0
  /\ isRecording' = FALSE
  /\ currentRecordingType' = null

\* lines 346-360, or 346 and 366-370: after the write target is dealt with, the
\* entry currentFileHandleRef holds becomes the active one of the handler's type
\* and handleListFiles is called (up to its await of getDirectory, lines 448-452);
\* with no entry held the handler cleans up and ends
OnStopPromote(s) ==
  IF currentFileHandleRef # null
  THEN /\ IF rec[s].type = "webcam"
          THEN /\ activeWebcamFileHandle' = currentFileHandleRef
               /\ webcamPlaybackUrl' = null
               /\ UNCHANGED <<activeScreenFileHandle, screenPlaybackUrl>>
          ELSE /\ activeScreenFileHandle' = currentFileHandleRef
               /\ screenPlaybackUrl' = null
               /\ UNCHANGED <<activeWebcamFileHandle, webcamPlaybackUrl>>
       /\ success' = "Recording saved and loaded!"
       /\ isInspecting' = TRUE
       /\ rec' = [rec EXCEPT ![s] = [@ EXCEPT !.pc = "listing", !.closing = null,
                                       !.closeRejected = FALSE]]
       /\ ev' = Ev("promoted", s)
       /\ UNCHANGED <<recState, mediaRecorderRef, mediaStreamRef, currentFileHandleRef,
                      activeTextFileHandle, fileContent, fileList, isLoading, error,
                      liveTracks, arrived>>
  ELSE /\ OnStopCleanup
       /\ rec' = [rec EXCEPT ![s] = Retired(s, liveTracks')]
       /\ arrived' = [arrived EXCEPT ![s] = <<>>]
       /\ ev' = Ev("onstopDoneNoEntry", s)
       /\ UNCHANGED <<currentFileHandleRef, actives, companions, listing, feedback>>

\* lines 331-337: the stop event; with a write target held, close() is called on it
OnStopClose(s) ==
  /\ rec[s].pc = "stopEvent"
  /\ writableStreamRef # null
  /\ writables' = [writables EXCEPT ![writableStreamRef] =
                     [@ EXCEPT !.state = IF @ = "open" THEN "closing" ELSE @]]
  /\ rec' = [rec EXCEPT ![s] =
               [@ EXCEPT !.pc = "closing", !.closing = writableStreamRef,
                         !.closeRejected = writables[writableStreamRef].state # "open"]]
  /\ ev' = Ev("closeCalled", s)
  /\ UNCHANGED <<recState, refs, actives, companions, listing, feedback, root, liveTracks,
                 uuidCount, calls, arrived>>
  /\ UNCHANGED faults
  /\ UNCHANGED requests
  /\ UNCHANGED <<store, objectUrls, createdBy, transfer>>

\* lines 331-335 with no write target held, then lines 346 on
OnStopNoTarget(s) ==
  /\ rec[s].pc = "stopEvent"
  /\ writableStreamRef = null
  /\ OnStopPromote(s)
  /\ UNCHANGED <<writableStreamRef, root, writables, uuidCount, calls>>
  /\ UNCHANGED faults
  /\ UNCHANGED requests
  /\ UNCHANGED <<store, objectUrls, createdBy, transfer>>

\* close() commits the swap file to the entry, if the entry is still there
Commit(name, bytes) ==
  IF name \in DOMAIN root THEN [root EXCEPT ![name] = FileEntry(bytes)] ELSE root

\* lines 337-338, 342: close() is fulfilled once the queued writes are done
CloseOk(s) ==
  /\ rec[s].pc = "closing"
  /\ ~rec[s].closeRejected
  /\ writables[rec[s].closing].state = "closing"
  /\ writables[rec[s].closing].pending = <<>>
  /\ root' = Commit(rec[s].closing, writables[rec[s].closing].buf)
  /\ writables' = [writables EXCEPT ![rec[s].closing] =
                     [@ EXCEPT !.state = "closed", !.buf = <<>>]]
  /\ writableStreamRef' = null
  /\ OnStopPromote(s)
  /\ UNCHANGED <<uuidCount, calls>>
  /\ UNCHANGED faults
  /\ UNCHANGED requests
  /\ UNCHANGED <<store, objectUrls, createdBy, transfer>>

\* lines 339-342: close() is rejected; the error is only logged
CloseFail(s) ==
  /\ rec[s].pc = "closing"
  /\ rec[s].closeRejected \/ writables[rec[s].closing].pending = <<>>
  /\ writables' = [writables EXCEPT ![rec[s].closing] =
                     [@ EXCEPT !.state = IF rec[s].closeRejected THEN @ ELSE "errored"]]
  /\ writableStreamRef' = null
  /\ IF rec[s].closeRejected \/ writables[rec[s].closing].state = "errored"
     THEN UNCHANGED faults ELSE Fault
  /\ OnStopPromote(s)
  /\ UNCHANGED <<root, uuidCount, calls>>
  /\ UNCHANGED requests
  /\ UNCHANGED <<store, objectUrls, createdBy, transfer>>

\* lines 362-370 after handleListFiles returned (lines 461-473 or 468-473)
OnStopListed(s, listed) ==
  /\ rec[s].pc = "listing"
  /\ IF listed
     THEN /\ fileList' = ListedFiles
          /\ success' = ListMessage(ListedFiles)
          /\ UNCHANGED error
     ELSE /\ error' = "Could not list files"
          /\ UNCHANGED <<fileList, success>>
  /\ IF listed THEN UNCHANGED faults ELSE Fault
  /\ isInspecting' = FALSE
  /\ currentFileHandleRef' = null
  /\ OnStopCleanup
  /\ rec' = [rec EXCEPT ![s] = Retired(s, liveTracks')]
  /\ arrived' = [arrived EXCEPT ![s] = <<>>]
  /\ ev' = Ev(IF listed THEN "onstopDone" ELSE "onstopDoneListFailed", s)
  /\ UNCHANGED <<writableStreamRef, actives, companions, isLoading, root, writables,
                 uuidCount, calls>>
  /\ UNCHANGED requests
  /\ UNCHANGED <<store, objectUrls, createdBy, transfer>>

\* ---- handleLoadFile ----

LoadNames == DOMAIN root \cup MissingNames

\* lines 480-488: up to the await of getDirectory and getFileHandle
LoadBegin(fileName) ==
  /\ loadCall.pc = "idle"
  /\ error' = "" /\ success' = ""
  /\ isLoading' = TRUE
  /\ loadCall' = [NoCall EXCEPT !.pc = "getFileHandle", !.arg = fileName]
  /\ ev' = Ev("loadBegin", 0)
  /\ Begin
  /\ UNCHANGED <<recState, refs, actives, companions, listing, host, rec, showCall,
                 playCall, arrived, faults>>
  /\ UNCHANGED <<store, objectUrls, createdBy, transfer>>

\* a load that left the other two categories as they were; C9 rules it out
LoadKnownKeepsOthers(fileName) ==
  /\ \/ /\ StartsWith(fileName, "text-")
        /\ activeTextFileHandle' = fileName
        /\ fileContent' = <<>>
        /\ UNCHANGED <<activeWebcamFileHandle, activeScreenFileHandle,
                       webcamPlaybackUrl, screenPlaybackUrl>>
        /\ success' = "Loaded text file"
     \/ /\ ~StartsWith(fileName, "text-") /\ StartsWith(fileName, "webcam-")
        /\ activeWebcamFileHandle' = fileName
        /\ webcamPlaybackUrl' = null
        /\ UNCHANGED <<activeTextFileHandle, activeScreenFileHandle, fileContent,
                       screenPlaybackUrl>>
        /\ success' = "Loaded webcam file"
     \/ /\ ~StartsWith(fileName, "text-") /\ ~StartsWith(fileName, "webcam-")
        /\ StartsWith(fileName, "screen-")
        /\ activeScreenFileHandle' = fileName
        /\ screenPlaybackUrl' = null
        /\ UNCHANGED <<activeTextFileHandle, activeWebcamFileHandle, fileContent,
                       webcamPlaybackUrl>>
        /\ success' = "Loaded screen file"
  /\ ev' = Ev("loaded", 0)
  /\ UNCHANGED error

\* lines 491-517 and 526: the entry is resolved and its name has a known prefix
LoadKnown(fileName) ==
  /\ \/ /\ StartsWith(fileName, "text-")
        /\ activeTextFileHandle' = fileName
        /\ activeWebcamFileHandle' = null
        /\ activeScreenFileHandle' = null
        /\ success' = "Loaded text file"
     \/ /\ ~StartsWith(fileName, "text-") /\ StartsWith(fileName, "webcam-")
        /\ activeWebcamFileHandle' = fileName
        /\ activeTextFileHandle' = null
        /\ activeScreenFileHandle' = null
        /\ success' = "Loaded webcam file"
     \/ /\ ~StartsWith(fileName, "text-") /\ ~StartsWith(fileName, "webcam-")
        /\ StartsWith(fileName, "screen-")
        /\ activeScreenFileHandle' = fileName
        /\ activeTextFileHandle' = null
        /\ activeWebcamFileHandle' = null
        /\ success' = "Loaded screen file"
  /\ fileContent' = <<>>
  /\ webcamPlaybackUrl' = null
  /\ screenPlaybackUrl' = null
  /\ ev' = Ev("loaded", 0)
  /\ UNCHANGED error

\* lines 518-521 and 526: the entry is resolved and its name has no known prefix
LoadUnknown(fileName) ==
  /\ ~StartsWith(fileName, "text-") /\ ~StartsWith(fileName, "webcam-")
  /\ ~StartsWith(fileName, "screen-")
  /\ error' = "Unknown file type"
  /\ ev' = Ev("loadUnknown", 0)
  /\ UNCHANGED <<actives, companions, success>>

\* lines 522-524 and 526: getFileHandle(fileName) is rejected, which it is when the
\* root has no file of that name
LoadNotFound(fileName) ==
  /\ error' = "Could not load file"
  /\ ev' = Ev("loadFailed", 0)
  /\ UNCHANGED <<actives, companions, success>>

\* lines 485-527 after the await
LoadEnd ==
  /\ loadCall.pc = "getFileHandle"
  /\ IF loadCall.arg \in DOMAIN root /\ root[loadCall.arg].kind = "file"
     THEN LoadKnown(loadCall.arg) \/ LoadUnknown(loadCall.arg)
     ELSE LoadNotFound(loadCall.arg)
  /\ isLoading' = FALSE
  /\ loadCall' = NoCall
  /\ UNCHANGED <<recState, refs, listing, host, rec, showCall, playCall, arrived,
                 requests, faults>>
  /\ UNCHANGED <<store, objectUrls, createdBy, transfer>>

\* ---- handleShowFile ----

\* lines 194-198
ShowNoFile ==
  /\ activeTextFileHandle = null
  /\ error' = "No text file is loaded."
  /\ ev' = Ev("showNoFile", 0)
  /\ Request
  /\ UNCHANGED <<recState, refs, actives, companions, listing, isLoading, success, host,
                 rec, calls, arrived, faults>>
  /\ UNCHANGED <<store, objectUrls, createdBy, transfer>>

\* lines 200-207: the content shown is hidden
ShowHide ==
  /\ activeTextFileHandle # null
  /\ fileContent # <<>>
  /\ error' = "" /\ success' = ""
  /\ fileContent' = <<>>
  /\ ev' = Ev("hidden", 0)
  /\ Request
  /\ UNCHANGED <<recState, refs, actives, webcamPlaybackUrl, screenPlaybackUrl, listing,
                 isLoading, host, rec, calls, arrived, faults>>
  /\ UNCHANGED <<store, objectUrls, createdBy, transfer>>

\* lines 200-213: up to the await of getFile
ShowBegin ==
  /\ showCall.pc = "idle"
  /\ activeTextFileHandle # null
  /\ fileContent = <<>>
  /\ error' = "" /\ success' = ""
  /\ isLoading' = TRUE
  /\ showCall' = [NoCall EXCEPT !.pc = "getFile", !.handle = activeTextFileHandle]
  /\ ev' = Ev("showBegin", 0)
  /\ Begin
  /\ UNCHANGED <<recState, refs, actives, companions, listing, host, rec, loadCall,
                 playCall, arrived, faults>>
  /\ UNCHANGED <<store, objectUrls, createdBy, transfer>>

\* file.text(): the bytes decoded as UTF-8 into code points; a byte below 128 is
\* its own code point and a lone byte of 128 or more decodes to U+FFFD (the
\* entries of the model hold no multi-byte sequence)
Text(bytes) == [i \in DOMAIN bytes |-> IF bytes[i] < 128 THEN bytes[i] ELSE 65533]

\* lines 213-217 and 222: the file is read
ShowEnd ==
  /\ showCall.pc = "getFile"
  /\ showCall.handle \in DOMAIN root
  /\ fileContent' = Text(root[showCall.handle].bytes)
  /\ success' = "Showing content"
  /\ isLoading' = FALSE
  /\ showCall' = NoCall
  /\ ev' = Ev("shown", 0)
  /\ UNCHANGED <<recState, refs, actives, webcamPlaybackUrl, screenPlaybackUrl, listing,
                 error, host, rec, loadCall, playCall, arrived, requests, faults>>
  /\ UNCHANGED <<store, objectUrls, createdBy, transfer>>

\* lines 213 and 218-222: getFile() is rejected, which it is when the entry of the
\* handle is no longer in the root
ShowFail ==
  /\ showCall.pc = "getFile"
  /\ showCall.handle \notin DOMAIN root
  /\ error' = "Could not read file"
  /\ isLoading' = FALSE
  /\ showCall' = NoCall
  /\ ev' = Ev("showFailed", 0)
  /\ UNCHANGED <<recState, refs, actives, companions, listing, success, host, rec,
                 loadCall, playCall, arrived, requests, faults>>
  /\ UNCHANGED <<store, objectUrls, createdBy, transfer>>

\* ---- handlePlayMedia ----

ActiveMedia(type) == IF type = "webcam" THEN activeWebcamFileHandle
                     ELSE activeScreenFileHandle

\* lines 394-399
PlayNoFile(type) ==
  /\ ActiveMedia(type) = null
  /\ error' = "No file is loaded."
  /\ ev' = Ev("playNoFile", 0)
  /\ Request
  /\ UNCHANGED <<recState, refs, actives, companions, listing, isLoading, success, host,
                 rec, calls, arrived, faults>>
  /\ UNCHANGED <<store, objectUrls, createdBy, transfer>>

\* lines 394-406: the old URL is dropped, then getFile is awaited
PlayBegin(type) ==
  /\ playCall.pc = "idle"
  /\ ActiveMedia(type) # null
  /\ IF type = "webcam"
     THEN webcamPlaybackUrl' = null /\ UNCHANGED screenPlaybackUrl
     ELSE screenPlaybackUrl' = null /\ UNCHANGED webcamPlaybackUrl
  /\ playCall' = [pc |-> "getFile", arg |-> type, handle |-> ActiveMedia(type)]
  /\ ev' = Ev("playBegin", 0)
  /\ Begin
  /\ UNCHANGED <<recState, refs, actives, fileContent, listing, feedback, host, rec,
                 loadCall, showCall, arrived, faults>>
  /\ UNCHANGED <<store, objectUrls, createdBy, transfer>>

\* lines 406-414: the file is read and its URL is set
PlayEnd ==
  /\ playCall.pc = "getFile"
  /\ playCall.handle \in DOMAIN root
  /\ IF playCall.arg = "webcam"
     THEN webcamPlaybackUrl' = ObjectURL(playCall.handle) /\ UNCHANGED screenPlaybackUrl
     ELSE screenPlaybackUrl' = ObjectURL(playCall.handle) /\ UNCHANGED webcamPlaybackUrl
  /\ objectUrls' = [objectUrls EXCEPT ![playCall.arg] = @ + 1]
  /\ playCall' = NoCall
  /\ ev' = Ev("playing", 0)
  /\ UNCHANGED <<recState, refs, actives, fileContent, listing, feedback, host, rec,
                 loadCall, showCall, arrived, requests, faults>>
  /\ UNCHANGED <<store, transfer, createdBy>>

\* lines 406 and 415-418: getFile() is rejected, which it is when the entry of the
\* handle is no longer in the root
PlayFail ==
  /\ playCall.pc = "getFile"
  /\ playCall.handle \notin DOMAIN root
  /\ error' = "Could not play file"
  /\ playCall' = NoCall
  /\ ev' = Ev("playFailed", 0)
  /\ UNCHANGED <<recState, refs, actives, companions, listing, isLoading, success, host,
                 rec, loadCall, showCall, arrived, requests, faults>>
  /\ UNCHANGED <<store, objectUrls, createdBy, transfer>>

\* ---- handleListFiles, called from the page ----

\* lines 448-452: up to the await of getDirectory
ListBegin ==
  /\ listCall.pc = "idle"
  /\ isInspecting' = TRUE
  /\ listCall' = [NoCall EXCEPT !.pc = "values"]
  /\ ev' = Ev("listBegin", 0)
  /\ Begin
  /\ UNCHANGED <<recState, refs, actives, companions, fileList, feedback, host, rec,
                 calls, isSupported, boot, deleteCall, ingestCall, objectUrls, createdBy, transfer, arrived,
                 faults>>

\* lines 461-473: the entries are enumerated, or the enumeration is rejected
ListResult(listed) ==
  /\ IF listed
     THEN /\ fileList' = ListedFiles
          /\ success' = ListMessage(ListedFiles)
          /\ UNCHANGED error
     ELSE /\ error' = "Could not list files"
          /\ UNCHANGED <<fileList, success>>
  /\ IF listed THEN UNCHANGED faults ELSE Fault
  /\ isInspecting' = FALSE

\* lines 452-473 after the await
ListEnd(listed) ==
  /\ listCall.pc = "values"
  /\ ListResult(listed)
  /\ listCall' = NoCall
  /\ ev' = Ev(IF listed THEN "listed" ELSE "listFailed", 0)
  /\ UNCHANGED <<recState, refs, actives, companions, isLoading, host, rec, calls,
                 isSupported, boot, deleteCall, ingestCall, objectUrls, createdBy, transfer, arrived,
                 requests>>

\* ---- handleDeleteFile ----

\* no handler and no recording session is in flight
Quiet ==
  /\ loadCall.pc = "idle" /\ showCall.pc = "idle" /\ playCall.pc = "idle"
  /\ listCall.pc = "idle" /\ deleteCall.pc = "idle" /\ ingestCall.pc = "idle"
  /\ downloadCall.pc = "idle"
  /\ \A s \in Sessions : rec[s].pc \in {"unused", "done"}
  /\ boot.pc \in {"done", "unsupported", "failed"}

\* an entry with a write target open on it is locked: removeEntry is rejected
Locked(name) ==
  \/ name \in DOMAIN writables /\ writables[name].state \in {"open", "closing"}
  \/ ingestCall.name = name /\ ingestCall.pc \in {"read", "write", "closing"}

\* lines 534-540: up to the await of getDirectory and removeEntry; the handler keeps
\* the active references of the render it was called from
DeleteBegin(fileName) ==
  /\ deleteCall.pc = "idle"
  /\ error' = "" /\ success' = ""
  /\ isLoading' = TRUE
  /\ deleteCall' = [pc |-> "removeEntry", arg |-> fileName, found |-> actives,
                    quiet |-> Quiet, request |-> requests + 1]
  /\ ev' = Ev("deleteBegin", 0)
  /\ Begin
  /\ UNCHANGED <<recState, refs, actives, companions, listing, host, rec, calls,
                 isSupported, boot, listCall, ingestCall, objectUrls, createdBy, transfer, arrived, faults>>

\* lines 544-550: the name is the active entry of the category of its prefix
DeletedWasActive(fileName, found) ==
  \/ StartsWith(fileName, "text-") /\ found[1] = fileName
  \/ StartsWith(fileName, "webcam-") /\ found[2] = fileName
  \/ StartsWith(fileName, "screen-") /\ found[3] = fileName

\* a removal that left the cards as they were; C11 rules it out
DeleteRemovedKeepsActive ==
  /\ deleteCall.pc = "removeEntry"
  /\ deleteCall.arg \in DOMAIN root /\ ~Locked(deleteCall.arg)
  /\ root' = [n \in DOMAIN root \ {deleteCall.arg} |-> root[n]]
  /\ success' = "Deleted file"
  /\ isInspecting' = TRUE
  /\ deleteCall' = [deleteCall EXCEPT !.pc = "listing"]
  /\ ev' = Ev("deleted", 0)
  /\ UNCHANGED <<recState, refs, actives, companions, fileList, isLoading, error,
                 writables, liveTracks, uuidCount, rec, calls, isSupported, boot,
                 listCall, ingestCall, objectUrls, createdBy, transfer, arrived, requests, faults>>

\* lines 540-561: the entry is removed; if it was the active one the cards are
\* cleared; handleListFiles is called (up to its await, lines 448-452)
DeleteRemoved ==
  /\ deleteCall.pc = "removeEntry"
  /\ deleteCall.arg \in DOMAIN root /\ ~Locked(deleteCall.arg)
  /\ root' = [n \in DOMAIN root \ {deleteCall.arg} |-> root[n]]
  /\ success' = "Deleted file"
  /\ IF DeletedWasActive(deleteCall.arg, deleteCall.found)
     THEN /\ activeTextFileHandle' = null /\ fileContent' = <<>>
          /\ activeWebcamFileHandle' = null /\ webcamPlaybackUrl' = null
          /\ activeScreenFileHandle' = null /\ screenPlaybackUrl' = null
     ELSE UNCHANGED <<actives, companions>>
  /\ isInspecting' = TRUE
  /\ deleteCall' = [deleteCall EXCEPT !.pc = "listing"]
  /\ ev' = Ev("deleted", 0)
  /\ UNCHANGED <<recState, refs, fileList, isLoading, error, writables, liveTracks,
                 uuidCount, rec, calls, isSupported, boot, listCall, ingestCall,
                 objectUrls, createdBy, transfer, arrived, requests, faults>>

\* a failed removal that dropped the name from the listing; C13 rules it out
DeleteFailUnlists ==
  /\ deleteCall.pc = "removeEntry"
  /\ deleteCall.arg \notin DOMAIN root \/ Locked(deleteCall.arg)
  /\ error' = "Could not delete file"
  /\ fileList' = fileList \ {CHOOSE n \in fileList : TRUE}
  /\ isLoading' = FALSE
  /\ deleteCall' = NoDelete
  /\ ev' = Ev(IF deleteCall.arg \in DOMAIN root THEN "deleteLocked" ELSE "deleteFailed", 0)
  /\ UNCHANGED <<recState, refs, actives, companions, isInspecting, success, host, rec,
                 calls, isSupported, boot, listCall, ingestCall, objectUrls, createdBy, transfer, arrived,
                 requests, faults>>

\* lines 540 and 562-567: removeEntry is rejected, which it is when the root has no
\* entry of the name or the entry is locked
DeleteFail ==
  /\ deleteCall.pc = "removeEntry"
  /\ deleteCall.arg \notin DOMAIN root \/ Locked(deleteCall.arg)
  /\ error' = "Could not delete file"
  /\ isLoading' = FALSE
  /\ deleteCall' = NoDelete
  /\ ev' = Ev(IF deleteCall.arg \in DOMAIN root THEN "deleteLocked" ELSE "deleteFailed", 0)
  /\ UNCHANGED <<recState, refs, actives, companions, listing, success, host, rec, calls,
                 isSupported, boot, listCall, ingestCall, objectUrls, createdBy, transfer, arrived, requests,
                 faults>>

\* lines 561 and 565-567 after handleListFiles returned
DeleteListed(listed) ==
  /\ deleteCall.pc = "listing"
  /\ ListResult(listed)
  /\ isLoading' = FALSE
  /\ deleteCall' = NoDelete
  /\ ev' = Ev(IF listed THEN "deleteDone" ELSE "deleteDoneListFailed", 0)
  /\ UNCHANGED <<recState, refs, actives, companions, host, rec, calls, isSupported,
                 boot, listCall, ingestCall, objectUrls, createdBy, transfer, arrived, requests>>

\* ---- handleFileSelect ----

\* line 146
CHUNK_SIZE == 5 * 1024

\* line 120: `text-${crypto.randomUUID()}.txt`, the n-th UUID drawn written n
TextFileName(n) == "text-" \o ToString(n) \o ".txt"

\* the ways file.stream() may deliver a file: its bytes cut into consecutive
\* non-empty read chunks
RECURSIVE Splits(_)
Splits(bytes) ==
  IF bytes = <<>> THEN {<<>>}
  ELSE {<<bytes>>} \cup
       UNION {{<<SubSeq(bytes, 1, k)>> \o rest :
                 rest \in Splits(SubSeq(bytes, k + 1, Len(bytes)))} :
              k \in 1..(Len(bytes) - 1)}

\* a file of n bytes, each byte its own position
FileBytes(n) == [i \in 1..n |-> i]
\* the files the page offers with its sub-chunk bound of 5 KiB, and the files and
\* bounds the handler is run with on its own
PageSources == {<<FileBytes(2)>>}
Sources == UNION {Splits(FileBytes(n)) : n \in 0..MaxSourceLen}
ChunkBounds == 1..MaxChunkBound

RECURSIVE Flatten(_)
Flatten(chunks) == IF chunks = <<>> THEN <<>> ELSE Head(chunks) \o Flatten(Tail(chunks))

SubArrayInclusive(value, begin, end) ==
  SubSeq(value, begin + 1, IF end + 1 < Len(value) THEN end + 1 ELSE Len(value))

\* line 157: Uint8Array.prototype.subarray(begin, end), 0 <= begin <= end
SubArray(value, begin, end) ==
  SubSeq(value, begin + 1, IF end < Len(value) THEN end ELSE Len(value))

\* lines 103-107: the selection was cancelled
IngestNoFile ==
  /\ ev' = Ev("ingestNoFile", 0)
  /\ Request
  /\ UNCHANGED <<recState, refs, actives, companions, listing, feedback, host, rec,
                 calls, store, objectUrls, createdBy, transfer, arrived, faults>>

\* lines 103-127: up to the await of getDirectory and getFileHandle
IngestBegin(chunks, bound) ==
  /\ ingestCall.pc = "idle"
  /\ uuidCount + Cardinality({s \in Sessions : rec[s].pc = "getUserMedia"}) < MaxEntries
  /\ error' = "" /\ success' = ""
  /\ isLoading' = TRUE
  /\ fileContent' = <<>>
  /\ activeTextFileHandle' = null
  /\ uuidCount' = uuidCount + 1
  /\ ingestCall' = [NoIngest EXCEPT !.pc = "getFileHandle",
                                    !.name = TextFileName(uuidCount + 1),
                                    !.source = Flatten(chunks), !.chunks = chunks,
                                    !.bound = bound, !.quiet = Quiet,
                                    !.request = requests + 1]
  /\ ev' = Ev("ingestBegin", 0)
  /\ Begin
  /\ UNCHANGED <<recState, refs, activeWebcamFileHandle, activeScreenFileHandle,
                 webcamPlaybackUrl, screenPlaybackUrl, listing, root, writables,
                 liveTracks, rec, calls, isSupported, boot, listCall, deleteCall,
                 objectUrls, createdBy, transfer, arrived, faults>>

\* lines 132-138: getFileHandle(newFileName, {create: true}) makes the entry;
\* createWritable is awaited
IngestEntryOk ==
  /\ ingestCall.pc = "getFileHandle"
  /\ root' = [n \in DOMAIN root \cup {ingestCall.name} |->
               IF n = ingestCall.name THEN FileEntry(<<>>) ELSE root[n]]
  /\ ingestCall' = [ingestCall EXCEPT !.pc = "createWritable"]
  /\ createdBy' = IF ingestCall.name \in DOMAIN root THEN createdBy
                  ELSE Created(ingestCall.name, "text")
  /\ ev' = Ev("ingestEntryCreated", 0)
  /\ UNCHANGED <<recState, refs, actives, companions, listing, feedback, writables,
                 liveTracks, uuidCount, rec, calls, isSupported, boot, listCall,
                 deleteCall, objectUrls, transfer, arrived, requests, faults>>

\* lines 177-186 with no write target held (`writable` is null): the error is set
\* and the busy indicator falls
IngestCatch ==
  /\ error' = "Upload failed"
  /\ isLoading' = FALSE
  /\ ingestCall' = NoIngest
  /\ UNCHANGED <<recState, refs, actives, companions, listing, success, writables,
                 liveTracks, uuidCount, rec, calls, isSupported, boot, listCall,
                 deleteCall, objectUrls, createdBy, transfer, arrived, requests>>

\* lines 127-135 rejected
IngestEntryFail ==
  /\ ingestCall.pc = "getFileHandle"
  /\ IngestCatch
  /\ ev' = Ev("ingestEntryFailed", 0)
  /\ UNCHANGED root
  /\ Fault

\* lines 138-150: the write target opens on an empty swap file; the first read of
\* the source is awaited
IngestWritableOk ==
  /\ ingestCall.pc = "createWritable"
  /\ ingestCall.name \in DOMAIN root
  /\ ingestCall' = [ingestCall EXCEPT !.pc = "read"]
  /\ ev' = Ev("ingestWritableOpen", 0)
  /\ UNCHANGED <<recState, refs, actives, companions, listing, feedback, host, rec,
                 calls, isSupported, boot, listCall, deleteCall, objectUrls, createdBy, transfer, arrived,
                 requests, faults>>

\* line 138 rejected: by a fault of the host, or because the entry was removed
\* after its handle was obtained
IngestWritableFail ==
  /\ ingestCall.pc = "createWritable"
  /\ IngestCatch
  /\ ev' = Ev("ingestWritableFailed", 0)
  /\ UNCHANGED root
  /\ IF ingestCall.name \in DOMAIN root THEN Fault ELSE UNCHANGED faults

\* lines 150-161 and 166: a read of the source resolves: at the end of the stream close()
\* is called; else the first sub-chunk of the chunk read is passed to write()
IngestRead ==
  /\ ingestCall.pc = "read"
  /\ ingestCall' =
       IF ingestCall.chunks = <<>>
       THEN [ingestCall EXCEPT !.pc = "closing"]
       ELSE LET value == Head(ingestCall.chunks)
            IN  IF 0 < Len(value)
                THEN [ingestCall EXCEPT
                        !.pc = "write", !.value = value, !.i = 0, !.chunks = Tail(@),
                        !.writes = Append(@, SubArray(value, 0, ingestCall.bound))]
                ELSE [ingestCall EXCEPT !.chunks = Tail(@)]
  /\ ev' = Ev("ingestRead", 0)
  /\ UNCHANGED <<recState, refs, actives, companions, listing, feedback, host, rec,
                 calls, isSupported, boot, listCall, deleteCall, objectUrls, createdBy, transfer, arrived,
                 requests, faults>>

\* lines 156-162: the write awaited is fulfilled: the sub-chunk is in the swap
\* file; the next sub-chunk of the chunk is passed to write(), or the next read is
\* awaited
IngestWriteOk ==
  /\ ingestCall.pc = "write"
  /\ LET i == ingestCall.i + ingestCall.bound
         written == SubArray(ingestCall.value, ingestCall.i, i)
     IN  ingestCall' =
           IF i < Len(ingestCall.value)
           THEN [ingestCall EXCEPT
                   !.i = i, !.buf = @ \o written,
                   !.writes = Append(@, SubArray(ingestCall.value, i,
                                                 i + ingestCall.bound))]
           ELSE [ingestCall EXCEPT !.pc = "read", !.i = i, !.buf = @ \o written]
  /\ ev' = Ev("ingestWritten", 0)
  /\ UNCHANGED <<recState, refs, actives, companions, listing, feedback, host, rec,
                 calls, isSupported, boot, listCall, deleteCall, objectUrls, createdBy, transfer, arrived,
                 requests, faults>>

\* lines 177-181 with the write target held: the error is set and abort() is
\* awaited
IngestCatchAbort ==
  /\ error' = "Upload failed"
  /\ ingestCall' = [ingestCall EXCEPT !.pc = "aborting"]
  /\ UNCHANGED <<recState, refs, actives, companions, listing, isLoading, success,
                 host, rec, calls, isSupported, boot, listCall, deleteCall, objectUrls, createdBy, transfer,
                 arrived, requests>>

\* line 161 rejected
IngestWriteFail ==
  /\ ingestCall.pc = "write"
  /\ IngestCatchAbort
  /\ ev' = Ev("ingestWriteFailed", 0)
  /\ Fault

IngestCloseOkKeepsActive ==
  /\ ingestCall.pc = "closing"
  /\ root' = Commit(ingestCall.name, ingestCall.buf)
  /\ success' = "File uploaded and loaded successfully!"
  /\ isInspecting' = TRUE
  /\ ingestCall' = [ingestCall EXCEPT !.pc = "listing"]
  /\ ev' = Ev("ingestClosed", 0)
  /\ UNCHANGED <<recState, refs, actives, companions, fileList, isLoading, error,
                 writables, liveTracks, uuidCount, rec, calls, isSupported, boot,
                 listCall, deleteCall, objectUrls, createdBy, transfer, arrived, requests, faults>>

\* lines 166-176: close() is fulfilled: the swap file becomes the entry; the entry
\* is the active text entry; handleListFiles is called (up to its await)
IngestCloseOk ==
  /\ ingestCall.pc = "closing"
  /\ root' = Commit(ingestCall.name, ingestCall.buf)
  /\ activeTextFileHandle' = ingestCall.name
  /\ success' = "File uploaded and loaded successfully!"
  /\ isInspecting' = TRUE
  /\ ingestCall' = [ingestCall EXCEPT !.pc = "listing"]
  /\ ev' = Ev("ingestClosed", 0)
  /\ UNCHANGED <<recState, refs, activeWebcamFileHandle, activeScreenFileHandle,
                 companions, fileList, isLoading, error, writables, liveTracks,
                 uuidCount, rec, calls, isSupported, boot, listCall, deleteCall,
                 objectUrls, createdBy, transfer, arrived, requests, faults>>

\* line 166 rejected
IngestCloseFail ==
  /\ ingestCall.pc = "closing"
  /\ IngestCatchAbort
  /\ ev' = Ev("ingestCloseFailed", 0)
  /\ Fault

\* lines 181-186: abort() has discarded the swap file; the busy indicator falls
IngestAborted ==
  /\ ingestCall.pc = "aborting"
  /\ isLoading' = FALSE
  /\ ingestCall' = NoIngest
  /\ ev' = Ev("ingestAborted", 0)
  /\ UNCHANGED <<recState, refs, actives, companions, listing, error, success, host,
                 rec, calls, isSupported, boot, listCall, deleteCall, objectUrls, createdBy, transfer,
                 arrived, requests, faults>>

\* lines 176 and 184-186 after handleListFiles returned
IngestListed(listed) ==
  /\ ingestCall.pc = "listing"
  /\ ListResult(listed)
  /\ isLoading' = FALSE
  /\ ingestCall' = NoIngest
  /\ ev' = Ev(IF listed THEN "ingestDone" ELSE "ingestDoneListFailed", 0)
  /\ UNCHANGED <<recState, refs, actives, companions, host, rec, calls, isSupported,
                 boot, listCall, deleteCall, objectUrls, createdBy, transfer, arrived, requests>>

\* ---- handleDownloadTextFile, handleDownloadMedia, downloadFileFromHandle ----

Categories == {"text"} \cup RecordingTypes
ActiveOf(c) == IF c = "text" THEN activeTextFileHandle ELSE ActiveMedia(c)

\* URL.createObjectURL and URL.revokeObjectURL, on the number of URLs that are live
CreateObjectURL(live) == live + 1
RevokeObjectURL(live) == live - 1

\* lines 230-234 and 425-430: the category has no active entry
DownloadNoFile(c) ==
  /\ ActiveOf(c) = null
  /\ error' = "No file to download."
  /\ ev' = Ev("downloadNoFile", 0)
  /\ Request
  /\ UNCHANGED <<recState, refs, actives, companions, listing, isLoading, success, host,
                 rec, calls, store, objectUrls, createdBy, transfer, arrived, faults>>

\* lines 235-239, 425-433 and 575-579: the text handler clears the messages, the
\* media handler does not; getFile() of the active entry is awaited
DownloadBegin(c) ==
  /\ downloadCall.pc = "idle"
  /\ ActiveOf(c) # null
  /\ IF c = "text" THEN error' = "" /\ success' = "" ELSE UNCHANGED <<error, success>>
  /\ downloadCall' = [pc |-> "getFile", arg |-> c, handle |-> ActiveOf(c)]
  /\ ev' = Ev("downloadBegin", 0)
  /\ Begin
  /\ UNCHANGED <<recState, refs, actives, companions, listing, isLoading, host, rec,
                 calls, store, objectUrls, createdBy, saved, transferUrls, arrived, faults>>

DownloadEndKeepsUrl ==
  /\ downloadCall.pc = "getFile"
  /\ downloadCall.handle \in DOMAIN root
  /\ saved' = [name |-> downloadCall.handle, bytes |-> root[downloadCall.handle].bytes]
  /\ transferUrls' = CreateObjectURL(transferUrls)
  /\ success' = "File download initiated."
  /\ downloadCall' = NoCall
  /\ ev' = Ev("downloaded", 0)
  /\ UNCHANGED <<recState, refs, actives, companions, listing, isLoading, error, host,
                 rec, calls, store, objectUrls, createdBy, arrived, requests, faults>>

\* lines 579-592 and 240 or 434: the file is read, a URL is created for it, a link
\* with the URL and the name of the file (that of its entry) is clicked, the URL is
\* revoked; the success message is set
DownloadEnd ==
  /\ downloadCall.pc = "getFile"
  /\ downloadCall.handle \in DOMAIN root
  /\ saved' = [name |-> downloadCall.handle, bytes |-> root[downloadCall.handle].bytes]
  /\ transferUrls' = RevokeObjectURL(CreateObjectURL(transferUrls))
  /\ success' = "File download initiated."
  /\ downloadCall' = NoCall
  /\ ev' = Ev("downloaded", 0)
  /\ UNCHANGED <<recState, refs, actives, companions, listing, isLoading, error, host,
                 rec, calls, store, objectUrls, createdBy, arrived, requests, faults>>

\* lines 579 and 241-244 or 435-438: getFile() is rejected, which it is when the
\* entry of the handle is no longer in the root
DownloadFail ==
  /\ downloadCall.pc = "getFile"
  /\ downloadCall.handle \notin DOMAIN root
  /\ error' = "Download failed"
  /\ downloadCall' = NoCall
  /\ ev' = Ev("downloadFailed", 0)
  /\ UNCHANGED <<recState, refs, actives, companions, listing, isLoading, success, host,
                 rec, calls, store, objectUrls, createdBy, saved, transferUrls, arrived, requests,
                 faults>>

\* ---- checkSupportAndLoad ----

BootUnsupportedSupports ==
  /\ boot.pc = "probe"
  /\ boot.caps # Capabilities
  /\ isSupported' = TRUE
  /\ boot' = [boot EXCEPT !.pc = "unsupported"]
  /\ ev' = Ev("unsupported", 0)
  /\ UNCHANGED <<recState, refs, actives, companions, listing, feedback, host, rec,
                 calls, listCall, deleteCall, ingestCall, objectUrls, createdBy, transfer, arrived, requests,
                 faults>>


\* lines 63-67 and 81-84: a capability is missing; isSupported stays false
BootUnsupported ==
  /\ boot.pc = "probe"
  /\ boot.caps # Capabilities
  /\ isSupported' = FALSE
  /\ boot' = [boot EXCEPT !.pc = "unsupported"]
  /\ ev' = Ev("unsupported", 0)
  /\ UNCHANGED <<recState, refs, actives, companions, listing, feedback, host, rec,
                 calls, listCall, deleteCall, ingestCall, objectUrls, createdBy, transfer, arrived, requests,
                 faults>>

\* lines 63-72: the capabilities are there; persisted() is awaited
BootProbe ==
  /\ boot.pc = "probe"
  /\ boot.caps = Capabilities
  /\ boot' = [boot EXCEPT !.pc = "persisted"]
  /\ ev' = Ev("probed", 0)
  /\ UNCHANGED <<recState, refs, actives, companions, listing, feedback, host, rec,
                 calls, isSupported, listCall, deleteCall, ingestCall, objectUrls, createdBy, transfer,
                 arrived, requests, faults>>

\* lines 78-79: isSupported is set and handleListFiles is called (up to its await,
\* lines 448-452)
BootSupported ==
  /\ isSupported' = TRUE
  /\ isInspecting' = TRUE
  /\ boot' = [boot EXCEPT !.pc = "listing"]
  /\ UNCHANGED <<recState, refs, actives, companions, fileList, feedback, host, rec,
                 calls, listCall, deleteCall, ingestCall, objectUrls, createdBy, transfer, arrived, requests,
                 faults>>

\* lines 72-76: persisted() resolves; when the storage is not persisted yet,
\* persist() is awaited
BootPersisted(isPersisted) ==
  /\ boot.pc = "persisted"
  /\ IF isPersisted
     THEN BootSupported
     ELSE /\ boot' = [boot EXCEPT !.pc = "persist"]
          /\ UNCHANGED <<recState, refs, actives, companions, listing, feedback, host,
                         rec, calls, isSupported, listCall, deleteCall, ingestCall,
                         objectUrls, createdBy, transfer, arrived, requests, faults>>
  /\ ev' = Ev(IF isPersisted THEN "persisted" ELSE "notPersisted", 0)

\* lines 75-79: persist() resolves, granted or denied; the result is only logged
BootPersist(granted) ==
  /\ boot.pc = "persist"
  /\ BootSupported
  /\ ev' = Ev(IF granted THEN "persistGranted" ELSE "persistDenied", 0)

\* lines 72 or 75 rejected: the promise of checkSupportAndLoad is rejected and
\* nobody handles it (line 86); lines 78-79 are not run
BootReject ==
  /\ boot.pc \in {"persisted", "persist"}
  /\ boot' = [boot EXCEPT !.pc = "failed"]
  /\ ev' = Ev(IF boot.pc = "persist" THEN "persistRejected" ELSE "persistedRejected", 0)
  /\ Fault
  /\ UNCHANGED <<recState, refs, actives, companions, listing, feedback, host, rec,
                 calls, isSupported, listCall, deleteCall, ingestCall, objectUrls, createdBy, transfer,
                 arrived, requests>>

\* line 79 after handleListFiles returned
BootListed(listed) ==
  /\ boot.pc = "listing"
  /\ ListResult(listed)
  /\ boot' = [boot EXCEPT !.pc = "done"]
  /\ ev' = Ev(IF listed THEN "bootListed" ELSE "bootListFailed", 0)
  /\ UNCHANGED <<recState, refs, actives, companions, isLoading, host, rec, calls,
                 isSupported, listCall, deleteCall, ingestCall, objectUrls, createdBy, transfer, arrived,
                 requests>>

Next ==
  \/ \E t \in RecordingTypes : StartRecording(t)
  \/ StopRecording
  \/ \E s \in Sessions :
       \/ GetUserMediaOk(s) \/ GetUserMediaFail(s)
       \/ GetFileHandleOk(s) \/ GetFileHandleFail(s)
       \/ CreateWritableOk(s) \/ RecorderThrows(s) \/ CreateWritableFail(s)
       \/ \E size \in SliceSizes : DataAvailable(s, size)
       \/ TracksEnded(s)
       \/ OnStopClose(s) \/ OnStopNoTarget(s) \/ CloseOk(s) \/ CloseFail(s)
       \/ \E listed \in BOOLEAN : OnStopListed(s, listed)
  \/ \E name \in DOMAIN writables : WriteOk(name) \/ WriteFail(name)
  \/ \E fileName \in LoadNames : LoadBegin(fileName)
  \/ LoadEnd
  \/ ShowNoFile \/ ShowHide \/ ShowBegin \/ ShowEnd
  \/ \E t \in RecordingTypes : PlayNoFile(t) \/ PlayBegin(t)
  \/ PlayEnd
  \/ ShowFail \/ PlayFail
  \/ \E c \in Categories : DownloadNoFile(c) \/ DownloadBegin(c)
  \/ DownloadEnd \/ DownloadFail
  \/ ListBegin
  \/ \E listed \in BOOLEAN : ListEnd(listed)
  \/ \E fileName \in LoadNames : DeleteBegin(fileName)
  \/ DeleteRemoved \/ DeleteFail
  \/ \E listed \in BOOLEAN : DeleteListed(listed)
  \/ IngestNoFile
  \/ \E chunks \in PageSources : IngestBegin(chunks, CHUNK_SIZE)
  \/ IngestEntryOk \/ IngestEntryFail \/ IngestWritableOk \/ IngestWritableFail
  \/ IngestRead \/ IngestWriteOk \/ IngestWriteFail
  \/ IngestCloseOk \/ IngestCloseFail \/ IngestAborted
  \/ \E listed \in BOOLEAN : IngestListed(listed)

Spec == Init /\ [][Next]_vars

\* handleFileSelect on its own, for every file and every sub-chunk bound
IngestNext ==
  \/ \E chunks \in Sources, bound \in ChunkBounds : IngestBegin(chunks, bound)
  \/ IngestEntryOk \/ IngestEntryFail \/ IngestWritableOk \/ IngestWritableFail
  \/ IngestRead \/ IngestWriteOk \/ IngestWriteFail
  \/ IngestCloseOk \/ IngestCloseFail \/ IngestAborted
  \/ \E listed \in BOOLEAN : IngestListed(listed)

SpecIngest == Init /\ [][IngestNext]_vars

\* the page from its mount: checkSupportAndLoad, and the requests for the storage
StartupNext ==
  \/ BootUnsupported \/ BootProbe
  \/ \E isPersisted \in BOOLEAN : BootPersisted(isPersisted)
  \/ \E granted \in BOOLEAN : BootPersist(granted)
  \/ BootReject
  \/ \E listed \in BOOLEAN : BootListed(listed)
  \/ \E t \in RecordingTypes : StartRecordingAccepted(t)
  \/ \E s \in Sessions : GetUserMediaFail(s)
  \/ ListBegin
  \/ \E listed \in BOOLEAN : ListEnd(listed)
  \/ \E fileName \in LoadNames : LoadBegin(fileName)
  \/ LoadEnd
  \/ \E fileName \in LoadNames : DeleteBegin(fileName)
  \/ DeleteRemoved \/ DeleteFail
  \/ \E listed \in BOOLEAN : DeleteListed(listed)
  \/ \E chunks \in PageSources : IngestBegin(chunks, CHUNK_SIZE)
  \/ IngestEntryOk \/ IngestEntryFail \/ IngestWritableOk \/ IngestWritableFail
  \/ IngestRead \/ IngestWriteOk \/ IngestWriteFail
  \/ IngestCloseOk \/ IngestCloseFail \/ IngestAborted
  \/ \E listed \in BOOLEAN : IngestListed(listed)

SpecStartup == InitStartup /\ [][StartupNext]_vars

\* the page making recording requests only
RecordingNext ==
  \/ \E t \in RecordingTypes : StartRecording(t)
  \/ StopRecording
  \/ \E s \in Sessions :
       \/ GetUserMediaOk(s) \/ GetUserMediaFail(s)
       \/ GetFileHandleOk(s) \/ GetFileHandleFail(s)
       \/ CreateWritableOk(s) \/ RecorderThrows(s) \/ CreateWritableFail(s)
       \/ \E size \in SliceSizes : DataAvailable(s, size)
       \/ TracksEnded(s)
       \/ OnStopClose(s) \/ OnStopNoTarget(s) \/ CloseOk(s) \/ CloseFail(s)
       \/ \E listed \in BOOLEAN : OnStopListed(s, listed)
  \/ \E name \in DOMAIN writables : WriteOk(name) \/ WriteFail(name)

SpecRecording == Init /\ [][RecordingNext]_vars

\* the recording handlers when every host call returns in the end: each promise a
\* session awaits is settled, the recorder of a session that is stopped delivers its
\* last data event and its stop event, and each queued write is settled
HostReturns(s) ==
  \/ GetUserMediaOk(s) \/ GetUserMediaFail(s)
  \/ GetFileHandleOk(s) \/ GetFileHandleFail(s)
  \/ CreateWritableOk(s) \/ RecorderThrows(s) \/ CreateWritableFail(s)
  \/ rec[s].pc = "flushing" /\ \E size \in SliceSizes : DataAvailable(s, size)
  \/ TracksEnded(s)
  \/ OnStopClose(s) \/ OnStopNoTarget(s) \/ CloseOk(s) \/ CloseFail(s)
  \/ \E listed \in BOOLEAN : OnStopListed(s, listed)
WriteReturns == \E name \in DOMAIN writables : WriteOk(name) \/ WriteFail(name)

SpecRecordingLive ==
  /\ Init /\ [][RecordingNext]_vars
  /\ \A s \in Sessions : WF_vars(HostReturns(s))
  /\ WF_vars(WriteReturns)

\* ==== the claims ====

\* sessions whose recorder has been started and whose stop handler has not ended
Started == {s \in Sessions : rec[s].pc \in {"recording", "flushing", "stopEvent",
                                            "closing", "listing"}}
OpenTargets == {n \in DOMAIN writables : writables[n].state = "open"}

\* C1: at most one recording session exists at any time, for every interleaving of
\* start requests: never two recorders started, never two write targets open.
C1_AtMostOneSession == Cardinality(Started) <= 1 /\ Cardinality(OpenTargets) <= 1

\* C2: a start request made while isRecording is true is rejected with an error,
\* and leaves the recorder, the stream, the write target, the current entry, the
\* capture streams and the storage root as they were.
C2_RejectedStartChangesNothing ==
  [][(ev'.op \in {"startRejected", "startAccepted"} /\ isRecording)
       => /\ ev'.op = "startRejected"
          /\ error' = "Another recording is already in progress."
          /\ UNCHANGED <<recState, refs, rec, root, writables, liveTracks, uuidCount>>]_vars

\* a recording is up and a start request has just been rejected
C2_Witness ==
  /\ ev.op = "startRejected"
  /\ isRecording /\ mediaRecorderRef # 0 /\ writableStreamRef # null
  /\ error = "Another recording is already in progress."

\* the bytes of the non-empty slices the recorder of session s delivered, in order
RECURSIVE SliceBytes(_, _)
SliceBytes(s, n) == IF n = 0 THEN <<>>
                    ELSE SliceBytes(s, n - 1) \o BlobBytes(s, n, arrived[s][n])
Delivered(s) == SliceBytes(s, Len(arrived[s]))

\* C3: every non-empty slice of a session causes one write to that session's write
\* target, a zero-size slice causes none, and once the stop handler has ended the
\* entry holds the non-empty slices in arrival order (when no host call failed).
C3_SlicesReachTheEntry ==
  [][/\ ev'.op = "dataavailable" =>
          LET s == ev'.s
              size == arrived'[s][Len(arrived'[s])]
              target == rec[s].fileName
          IN  IF size > 0
              THEN /\ target \in DOMAIN writables
                   /\ Len(writables'[target].pending) =
                        Len(writables[target].pending) + 1
                   /\ SubSeq(writables'[target].pending, 1,
                             Len(writables[target].pending)) = writables[target].pending
                   /\ writables'[target].pending[Len(writables'[target].pending)].bytes =
                        BlobBytes(s, Len(arrived'[s]), size)
                   /\ \A n \in DOMAIN writables \ {target} : writables'[n] = writables[n]
              ELSE writables' = writables
     /\ (ev'.op \in {"onstopDone", "onstopDoneNoEntry"} /\ faults' = 0) =>
          root'[rec[ev'.s].fileName].bytes = Delivered(ev'.s)]_vars

\* C4: when the stop handler of a session of type C has ended (and no host call
\* failed), the session's write target is closed, its entry is the active one of C
\* with no playback URL, its tracks are released, the session state is cleared
\* and the listing holds the entry's name.
C4_StopCompletes ==
  [][(ev'.op \in {"onstopDone", "onstopDoneNoEntry"} /\ faults' = 0) =>
       LET s == ev'.s
           name == rec[s].fileName
       IN  /\ writables'[name].state = "closed"
           /\ IF rec[s].type = "webcam"
              THEN activeWebcamFileHandle' = name /\ webcamPlaybackUrl' = null
              ELSE activeScreenFileHandle' = name /\ screenPlaybackUrl' = null
           /\ s \notin liveTracks'
           /\ mediaRecorderRef' = 0 /\ mediaStreamRef' = 0
           /\ writableStreamRef' = null /\ currentFileHandleRef' = null
           /\ ~isRecording' /\ currentRecordingType' = null
           /\ name \in fileList']_vars

\* C5: when acquiring the stream fails (with no other session about, no other
\* handler in flight and no other request made since the start request), the
\* error is surfaced, nothing is held, no entry is created, and the active
\* references, the text content and both playback URLs are as the start request
\* found them.
C5_FailedAcquireNoSideEffects ==
  [][(/\ ev'.op = "acquireFailed"
      /\ \A t \in Sessions \ {ev'.s} : rec[t].pc = "unused"
      /\ rec[ev'.s].pre.quiet /\ rec[ev'.s].pre.request = requests) =>
       /\ error' = "Could not start recording"
       /\ mediaRecorderRef' = 0 /\ mediaStreamRef' = 0 /\ writableStreamRef' = null
       /\ ~isRecording'
       /\ root' = root
       /\ <<actives, companions>>' = rec[ev'.s].pre.found]_vars

\* C6: when creating the entry or opening its write target fails, the tracks of
\* the stream the request acquired are stopped, the stream ref is cleared, an
\* error is surfaced, no recorder is made and isRecording is false.
C6_FailedCreateReleasesStream ==
  [][ev'.op \in {"entryFailed", "writableFailed"} =>
       /\ ev'.s \notin liveTracks'
       /\ mediaStreamRef' = 0
       /\ error' = "Could not create recording file"
       /\ mediaRecorderRef' = 0
       /\ ~isRecording']_vars

\* C7: a failed write of a slice only sets the error: isRecording, the recorder,
\* the stream and the write target stay as they were; a later non-empty slice is
\* still passed to write(); isRecording falls only at the end of a stop handler.
C7_WriteFailureKeepsSession ==
  [][/\ ev'.op = "writeFailed" =>
          /\ error' = "Recording error"
          /\ UNCHANGED <<recState, refs, rec, liveTracks, root>>
     /\ (ev'.op = "dataavailable" /\ writableStreamRef # null
           /\ arrived'[ev'.s][Len(arrived'[ev'.s])] > 0) =>
          Len(writables'[writableStreamRef].pending) =
            Len(writables[writableStreamRef].pending) + 1
     /\ (isRecording /\ ~isRecording') =>
          ev'.op \in {"onstopDone", "onstopDoneListFailed", "onstopDoneNoEntry"}]_vars

\* a write has failed, the recording goes on and a later slice is queued for write
C7_Witness ==
  /\ isRecording /\ mediaRecorderRef # 0 /\ mediaStreamRef # 0
  /\ writableStreamRef # null
  /\ writables[writableStreamRef].state = "errored"
  /\ writables[writableStreamRef].pending # <<>>
  /\ error = "Recording error"

\* C8: a stop request made while isRecording is false or no recorder is held
\* changes nothing: no session state, entry, active reference, listing or message.
C8_IdleStopIsNoop ==
  [][(ev'.op \in {"stopNoop", "stopAccepted", "stopInactive"}
        /\ (~isRecording \/ mediaRecorderRef = 0))
       => /\ ev'.op = "stopNoop"
          /\ UNCHANGED <<recState, refs, actives, companions, listing, feedback, host,
                         rec, calls, arrived>>]_vars

\* a stop request was made while a start request awaits its stream
C8_Witness ==
  /\ ev.op = "stopNoop"
  /\ ~isRecording
  /\ \E s \in Sessions : rec[s].pc = "getUserMedia"

\* C9: after a load of an existing entry with a known prefix, the entry is the
\* active one of the category of its prefix, and the other two active references,
\* the text content and both playback URLs are empty.
C9_LoadSetsOneCategory ==
  [][ev'.op = "loaded" =>
       LET name == loadCall.arg
       IN  /\ name \in DOMAIN root
           /\ activeTextFileHandle' = (IF StartsWith(name, "text-") THEN name ELSE null)
           /\ activeWebcamFileHandle' = (IF StartsWith(name, "webcam-") THEN name ELSE null)
           /\ activeScreenFileHandle' = (IF StartsWith(name, "screen-") THEN name ELSE null)
           /\ fileContent' = <<>>
           /\ webcamPlaybackUrl' = null /\ screenPlaybackUrl' = null]_vars

\* a webcam entry was loaded
C9_Witness ==
  /\ ev.op = "loaded"
  /\ activeWebcamFileHandle = "webcam-0.webm"
  /\ activeTextFileHandle = null /\ activeScreenFileHandle = null

KnownPrefix(name) ==
  StartsWith(name, "text-") \/ StartsWith(name, "webcam-") \/ StartsWith(name, "screen-")

\* C10: a load of a name with none of the three prefixes, whether or not the root
\* has an entry of that name, fails as an unrecognized category and changes no
\* active reference and no companion.
C10_UnknownPrefixIsUnrecognized ==
  [][(loadCall.pc = "getFileHandle" /\ loadCall'.pc = "idle"
        /\ ~KnownPrefix(loadCall.arg))
       => /\ error' = "Unknown file type"
          /\ UNCHANGED <<actives, companions>>]_vars

\* ---- the controls of the page ----

\* part_000 lines 620 and 628: the two start buttons
CanStart == ~(isRecording \/ isLoading)
\* line 636: the stop button
CanStop == isRecording
\* line 668: the file input
CanUpload == ~(isLoading \/ isRecording)
\* line 681: the refresh button
CanRefresh == ~(isInspecting \/ isLoading \/ isRecording)
\* lines 691-713: a load and a delete button for each name of the listing
CanLoad(name) == name \in fileList /\ ~(isLoading \/ isRecording)
CanDelete(name) == name \in fileList /\ ~(isLoading \/ isRecording)
\* TextFileCard.tsx lines 25 and 33: the show and download buttons of the text card
CanShow == activeTextFileHandle # null /\ ~isRecording /\ ~isLoading
\* TextFileCard.tsx lines 66 and 74: the play and download buttons of a media card
CanPlay(type) == ActiveMedia(type) # null /\ ~isRecording
CanDownload(c) == IF c = "text" THEN CanShow ELSE CanPlay(c)

\* the page driven through its controls: a handler is called only by a control
\* that is enabled
PageNext ==
  \/ CanStart /\ \E t \in RecordingTypes : StartRecordingAccepted(t)
  \/ CanStop /\ StopRecordingStops
  \/ \E s \in Sessions :
       \/ GetUserMediaOk(s) \/ GetUserMediaFail(s)
       \/ GetFileHandleOk(s) \/ GetFileHandleFail(s)
       \/ CreateWritableOk(s) \/ RecorderThrows(s) \/ CreateWritableFail(s)
       \/ \E size \in SliceSizes : DataAvailable(s, size)
       \/ TracksEnded(s)
       \/ OnStopClose(s) \/ OnStopNoTarget(s) \/ CloseOk(s) \/ CloseFail(s)
       \/ \E listed \in BOOLEAN : OnStopListed(s, listed)
  \/ \E name \in DOMAIN writables : WriteOk(name) \/ WriteFail(name)
  \/ \E fileName \in LoadNames : CanLoad(fileName) /\ LoadBegin(fileName)
  \/ LoadEnd
  \/ CanShow /\ (ShowHide \/ ShowBegin)
  \/ ShowEnd
  \/ \E t \in RecordingTypes : CanPlay(t) /\ PlayBegin(t)
  \/ PlayEnd \/ PlayFail
  \/ \E c \in Categories : CanDownload(c) /\ DownloadBegin(c)
  \/ DownloadEnd \/ DownloadFail
  \/ CanRefresh /\ ListBegin
  \/ \E listed \in BOOLEAN : ListEnd(listed)
  \/ \E fileName \in LoadNames : CanDelete(fileName) /\ DeleteBegin(fileName)
  \/ DeleteRemoved \/ DeleteFail
  \/ \E listed \in BOOLEAN : DeleteListed(listed)
  \/ CanUpload /\ IngestNoFile
  \/ CanUpload /\ \E chunks \in PageSources : IngestBegin(chunks, CHUNK_SIZE)
  \/ IngestEntryOk \/ IngestEntryFail \/ IngestWritableOk \/ IngestWritableFail
  \/ IngestRead \/ IngestWriteOk \/ IngestWriteFail
  \/ IngestCloseOk \/ IngestCloseFail \/ IngestAborted
  \/ \E listed \in BOOLEAN : IngestListed(listed)

SpecPage == Init /\ [][PageNext]_vars

\* the page when every host call succeeds and the user waits for an operation to
\* end before starting the next: a control is used only when no handler is in
\* flight (the stop button, which ends the operation under way, excepted)
SoloNext ==
  \/ Quiet /\ CanStart /\ \E t \in RecordingTypes : StartRecordingAccepted(t)
  \/ CanStop /\ StopRecordingStops
  \/ \E s \in Sessions :
       \/ GetUserMediaOk(s) \/ GetFileHandleOk(s) \/ CreateWritableOk(s)
       \/ \E size \in SliceSizes : DataAvailable(s, size)
       \/ OnStopClose(s) \/ CloseOk(s)
       \/ OnStopListed(s, TRUE)
  \/ \E name \in DOMAIN writables : WriteOk(name)
  \/ \E fileName \in LoadNames : Quiet /\ CanLoad(fileName) /\ LoadBegin(fileName)
  \/ LoadEnd
  \/ Quiet /\ CanShow /\ (ShowHide \/ ShowBegin)
  \/ ShowEnd
  \/ \E t \in RecordingTypes : Quiet /\ CanPlay(t) /\ PlayBegin(t)
  \/ PlayEnd
  \/ \E c \in Categories : Quiet /\ CanDownload(c) /\ DownloadBegin(c)
  \/ DownloadEnd
  \/ Quiet /\ CanRefresh /\ ListBegin
  \/ ListEnd(TRUE)
  \/ \E fileName \in LoadNames : Quiet /\ CanDelete(fileName) /\ DeleteBegin(fileName)
  \/ DeleteRemoved
  \/ DeleteListed(TRUE)
  \/ Quiet /\ CanUpload /\ IngestNoFile
  \/ Quiet /\ CanUpload /\ \E chunks \in PageSources : IngestBegin(chunks, CHUNK_SIZE)
  \/ IngestEntryOk \/ IngestWritableOk \/ IngestRead \/ IngestWriteOk
  \/ IngestCloseOk \/ IngestListed(TRUE)

SpecSolo == Init /\ [][SoloNext]_vars

\* C11: once removeEntry(name) is done the root has no entry of the name and, when
\* the name was the active entry of a category at the request, that category's
\* active reference and companion are empty; at the end of the handler, its
\* listing taken, the listing snapshot does not hold the name.
C11_DeleteRemovesAndClears ==
  [][/\ ev'.op = "deleted" =>
          LET name == deleteCall.arg
              found == deleteCall.found
          IN  /\ name \in DOMAIN root /\ name \notin DOMAIN root'
              /\ found[1] = name => activeTextFileHandle' = null /\ fileContent' = <<>>
              /\ found[2] = name =>
                    activeWebcamFileHandle' = null /\ webcamPlaybackUrl' = null
              /\ found[3] = name =>
                    activeScreenFileHandle' = null /\ screenPlaybackUrl' = null
     /\ ev'.op = "deleteDone" =>
          deleteCall.arg \notin fileList' /\ deleteCall.arg \notin DOMAIN root']_vars

\* the active webcam entry has just been removed
C11_Witness ==
  /\ ev.op = "deleted"
  /\ deleteCall.found[2] = deleteCall.arg
  /\ deleteCall.arg = "webcam-0.webm"
  /\ deleteCall.arg \notin DOMAIN root
  /\ activeWebcamFileHandle = null /\ webcamPlaybackUrl = null

\* C12: a delete (no other handler being in flight, no other request made since)
\* changes the active reference and the companion of a category only when the
\* name was that category's active entry.
C12_DeleteTouchesOnlyItsCategory ==
  [][(ev'.op = "deleted" /\ deleteCall.quiet /\ deleteCall.request = requests) =>
       LET name == deleteCall.arg
           found == deleteCall.found
       IN  /\ found[1] # name => UNCHANGED <<activeTextFileHandle, fileContent>>
           /\ found[2] # name => UNCHANGED <<activeWebcamFileHandle, webcamPlaybackUrl>>
           /\ found[3] # name => UNCHANGED <<activeScreenFileHandle, screenPlaybackUrl>>]_vars

\* C13: a delete of a name with no entry in the root fails: the error is set, and
\* the root, the active references, the companions and the listing are unchanged.
C13_DeleteOfMissingFails ==
  [][(deleteCall.pc = "removeEntry" /\ deleteCall'.pc # "removeEntry"
        /\ deleteCall.arg \notin DOMAIN root)
       => /\ ev'.op = "deleteFailed"
          /\ error' = "Could not delete file"
          /\ UNCHANGED <<root, actives, companions, listing>>]_vars

\* a delete of a missing name has just failed, an entry being active
C13_Witness ==
  /\ ev.op = "deleteFailed"
  /\ error = "Could not delete file"
  /\ activeTextFileHandle # null
  /\ deleteCall.pc = "idle"
\* C14: an ingestion writes the sub-chunks in the order of the source, each
\* non-empty and no longer than the bound, no byte skipped or duplicated: what is
\* written is at every step a prefix of the source, a write is passed to the target
\* only when the writes before it are done, and when the write target is
\* closed the entry holds exactly the bytes of the source, for every way the source
\* is cut into read chunks and every bound
IsPrefix(p, q) == Len(p) <= Len(q) /\ p = SubSeq(q, 1, Len(p))

C14_ChunkingInvariance ==
  [][/\ ingestCall'.pc # "idle" =>
          /\ IsPrefix(ingestCall'.buf, ingestCall'.source)
          /\ IsPrefix(Flatten(ingestCall'.writes), ingestCall'.source)
          /\ Len(ingestCall'.buf) <= Len(Flatten(ingestCall'.writes))
          /\ \A k \in 1..Len(ingestCall'.writes) :
                Len(ingestCall'.writes[k]) \in 1..ingestCall'.bound
     /\ ev'.op = "ingestWritten" =>
          /\ ingestCall'.buf = Flatten(ingestCall.writes)
          /\ Len(ingestCall'.writes) <= Len(ingestCall.writes) + 1
     /\ ev'.op = "ingestClosed" =>
          /\ Flatten(ingestCall.writes) = ingestCall.source
          /\ ingestCall.name \in DOMAIN root'
          /\ root'[ingestCall.name].bytes = ingestCall.source
          /\ Len(root'[ingestCall.name].bytes) = Len(ingestCall.source)]_vars

C14_Witness ==
  /\ ev.op = "ingestClosed"
  /\ ingestCall.bound = 2
  /\ ingestCall.writes = << <<1, 2>>, <<3>>, <<4>> >>
  /\ root[ingestCall.name].bytes = <<1, 2, 3, 4>>

\* C15: when an ingestion that ran with no other handler in flight ends after its
\* listing succeeded, the write target is closed on the bytes of the source, the
\* new text- entry is the active text entry, no text content is shown, the busy
\* indicator is off and the listing snapshot holds the name of the entry
C15_IngestionCompletes ==
  [][(/\ ev'.op = "ingestDone"
      /\ ingestCall.quiet
      /\ ingestCall.request = requests) =>
       /\ ingestCall'.pc = "idle"
       /\ ~Locked(ingestCall.name)'
       /\ StartsWith(ingestCall.name, "text-")
       /\ ingestCall.name \in DOMAIN root'
       /\ root'[ingestCall.name].bytes = ingestCall.source
       /\ activeTextFileHandle' = ingestCall.name
       /\ fileContent' = <<>>
       /\ isLoading' = FALSE
       /\ ingestCall.name \in fileList']_vars

C15_Witness ==
  /\ ev.op = "ingestDone"
  /\ ingestCall.pc = "idle"
  /\ activeTextFileHandle = "text-1.txt"
  /\ root["text-1.txt"].bytes = FileBytes(2)
  /\ fileContent = <<>>
  /\ ~isLoading
  /\ "text-1.txt" \in fileList
  /\ requests = MaxRequests

\* C16: when a write of an ingestion that runs with no other handler in flight is
\* rejected and the abort of its write target
\* has been honoured, the call is over, the error is shown, the busy indicator is
\* off and the root holds no entry of the name being ingested, so that no listing
\* taken afterwards (a listing reads the names of the root's entries) can hold it
C16_FailedWriteLeavesNoEntry ==
  [][(/\ ev.op = "ingestWriteFailed" /\ ev'.op = "ingestAborted"
      /\ ingestCall.quiet /\ ingestCall.request = requests) =>
       /\ ingestCall'.pc = "idle"
       /\ error' = "Upload failed"
       /\ isLoading' = FALSE
       /\ ingestCall.name \notin DOMAIN root']_vars

\* C17: in every reachable state at most one of the busy indicator, a non-empty
\* error message and a non-empty success message is present
C17_OneFeedbackSlot ==
  Cardinality({k \in {"busy", "error", "success"} :
                 \/ k = "busy" /\ isLoading
                 \/ k = "error" /\ error # ""
                 \/ k = "success" /\ success # ""}) <= 1

\* C18: with the three capabilities present, when the request for persistent
\* storage is over, granted, denied or failed, the page is supported and the
\* listing of the storage is under way
C18_SupportedWhateverPersist ==
  [][(/\ boot.caps = Capabilities
      /\ boot.pc = "persist"
      /\ boot'.pc # "persist") =>
       /\ isSupported'
       /\ boot'.pc = "listing"
       /\ isInspecting']_vars

\* C19: when a capability is missing at the mount, the page is never supported and
\* nothing is ever done: no request is taken, no listing, ingestion, recording,
\* load or delete is in flight or has left a trace, and the storage is as it was
C19_UnsupportedDoesNothing ==
  boot.caps # Capabilities =>
    /\ ~isSupported
    /\ boot.pc \in {"probe", "unsupported"}
    /\ requests = 0
    /\ ~isInspecting /\ ~isLoading /\ ~isRecording
    /\ fileList = {}
    /\ listCall.pc = "idle" /\ deleteCall.pc = "idle" /\ ingestCall.pc = "idle"
    /\ loadCall.pc = "idle"
    /\ \A s \in Sessions : rec[s].pc = "unused"
    /\ liveTracks = {}
    /\ uuidCount = 0
    /\ root = PreRoot

C19_Witness ==
  /\ boot.pc = "unsupported"
  /\ boot.caps = {"mediaDevices", "MediaRecorder"}
  /\ ~isSupported
  /\ ev.op = "unsupported"

\* C20: in every reachable state each category has at most one playback URL that
\* was issued and not revoked
C20_OneLiveUrlPerCategory ==
  \A t \in RecordingTypes : objectUrls[t] <= 1

\* C21: a download triggers one save flow with the name and the bytes of the entry,
\* leaves no URL of the transfer live, and no step of a download handler changes
\* the storage, an active reference, a playback URL, the text content or the
\* listing snapshot
C21_DownloadIsOneShot ==
  [][/\ ev'.op = "downloaded" =>
          /\ saved'.name = downloadCall.handle
          /\ saved'.bytes = root[downloadCall.handle].bytes
          /\ transferUrls' = 0
          /\ downloadCall'.pc = "idle"
     /\ ev'.op \in {"downloaded", "downloadBegin", "downloadFailed", "downloadNoFile"} =>
          UNCHANGED <<root, writables, actives, companions, objectUrls, fileList>>]_vars

C21_Witness ==
  /\ ev.op = "downloaded"
  /\ activeWebcamFileHandle = "webcam-0.webm"
  /\ saved = [name |-> "webcam-0.webm", bytes |-> <<9>>]
  /\ transferUrls = 0
  /\ webcamPlaybackUrl # null

\* C22: in every reachable state a playback URL that is set is the URL of the
\* active entry of its category, and text content that is shown is the text of the
\* active text entry; a category with no active entry has no companion
C22_CompanionOfActive ==
  /\ webcamPlaybackUrl # null =>
       /\ activeWebcamFileHandle # null
       /\ webcamPlaybackUrl = ObjectURL(activeWebcamFileHandle)
  /\ screenPlaybackUrl # null =>
       /\ activeScreenFileHandle # null
       /\ screenPlaybackUrl = ObjectURL(activeScreenFileHandle)
  /\ fileContent # <<>> =>
       /\ activeTextFileHandle # null
       /\ activeTextFileHandle \in DOMAIN root =>
            fileContent = Text(root[activeTextFileHandle].bytes)

\* C23: in every state where the page is idle (isRecording is false and no start
\* or stop handler is in flight) no capture stream that was acquired has live
\* tracks
C23_IdleHoldsNoStream ==
  (/\ ~isRecording
   /\ \A s \in Sessions : rec[s].pc \in {"unused", "done"}) =>
    liveTracks = {}

\* C24: when the recorder of a session is started the entry of the session is in
\* the root and its write target is open, and (when no host call failed) every
\* non-empty slice a recorder delivers finds writableStreamRef set to a write
\* target that is open, so that the slice is not dropped
C24_SlicesFindOpenTarget ==
  [][/\ ev'.op = "recorderStarted" =>
          LET target == rec'[ev'.s].fileName
          IN  /\ target \in DOMAIN root'
              /\ target \in DOMAIN writables'
              /\ writables'[target].state = "open"
     /\ (ev'.op = "dataavailable" /\ faults = 0) =>
          LET s == ev'.s
              size == arrived'[s][Len(arrived'[s])]
          IN  size > 0 =>
                /\ writableStreamRef # null
                /\ writables[writableStreamRef].state = "open"]_vars

\* C25: an entry made by an ingestion has the prefix text- and one made by a
\* recording of a category has the prefix of the category; the name is not in the
\* root when the entry is made and the entries of the root stay as they are; a
\* load of an entry made since the mount makes it the active entry of the category
\* that made it and of no other
C25_NamesRoundTrip ==
  [][/\ ev'.op = "entryCreated" =>
          LET name == rec[ev'.s].fileName
          IN  /\ StartsWith(name, rec[ev'.s].type \o "-")
              /\ name \notin DOMAIN root
              /\ name \in DOMAIN root'
              /\ \A n \in DOMAIN root : root'[n] = root[n]
     /\ ev'.op = "ingestEntryCreated" =>
          LET name == ingestCall.name
          IN  /\ StartsWith(name, "text-")
              /\ name \notin DOMAIN root
              /\ name \in DOMAIN root'
              /\ \A n \in DOMAIN root : root'[n] = root[n]
     /\ (/\ loadCall.pc = "getFileHandle" /\ loadCall'.pc = "idle"
         /\ loadCall.arg \in DOMAIN createdBy
         /\ loadCall.arg \in DOMAIN root) =>
          \A c \in Categories :
            (ActiveOf(c)' = loadCall.arg) <=> (c = createdBy[loadCall.arg])]_vars

C25_Witness ==
  /\ ev.op = "loaded"
  /\ "webcam-1.webm" \in DOMAIN createdBy
  /\ createdBy["webcam-1.webm"] = "webcam"
  /\ activeWebcamFileHandle = "webcam-1.webm"
  /\ activeTextFileHandle = null /\ activeScreenFileHandle = null

\* C26: when every host call returns in the end, a stop request accepted while a
\* recorder records is followed by a state where isRecording is false and the
\* recorder, stream and write target references are empty, also when close() or
\* the listing fails
C26_StopLeadsToIdle ==
  (ev.op = "stopAccepted") ~>
    (/\ ~isRecording
     /\ mediaRecorderRef = 0 /\ mediaStreamRef = 0
     /\ writableStreamRef = null)

\* C27: when every host call succeeds and the user's actions do not overlap, in
\* every state with no handler in flight and no recording session the listing
\* snapshot is the set of the names of the entries of kind file of the root; the
\* directory of the root is never in it
C27_ListingIsTheRoot ==
  Quiet =>
    /\ fileList = {n \in DOMAIN root : root[n].kind = "file"}
    /\ fileList \cap PreDirs = {}

C27_Witness ==
  /\ Quiet
  /\ ev.op = "onstopDone"
  /\ "webcam-1.webm" \in fileList
  /\ "text-0.txt" \notin fileList
  /\ "text-dir" \in DOMAIN root
  /\ fileList = {n \in DOMAIN root : root[n].kind = "file"}

\* C28: no ingestion, load, delete, listing refresh, show, play or download is
\* started from the page while isRecording is true, and the entry a session
\* records to is not made the active entry by a load, nor removed by a delete,
\* while its write target is open
UiRequests == {"ingestBegin", "ingestNoFile", "loadBegin", "deleteBegin", "listBegin",
               "showBegin", "showHide", "playBegin", "downloadBegin"}
TargetOpen(name) == name \in DOMAIN writables /\ writables[name].state = "open"

C28_RecordingLocksThePage ==
  [][/\ ev'.op \in UiRequests => ~isRecording
     /\ ev'.op = "loaded" => ~TargetOpen(loadCall.arg)
     /\ ev'.op = "deleted" => ~TargetOpen(deleteCall.arg)]_vars

====
